---- MODULE Spec2Model ----
(***************************************************************************)
(* State-machine model of the spending/election chart pages               *)
(* (608/Story1/chartjs-nextjs and the stand-alone first chart).           *)
(*                                                                         *)
(* Nine specifications share the definitions below:                       *)
(*   Spec            - one page's main() pipeline: static loads, the      *)
(*                     fiscal-year obligation fetches (sequential or      *)
(*                     concurrent, cached or not), the aggregation and    *)
(*                     buildChart with its trend line;                    *)
(*   SpecCache       - getStateObligations with its two cache layers,     *)
(*                     called by concurrent callers while the clock       *)
(*                     advances;                                          *)
(*   SpecRegression  - buildChart's regression and trend line over point  *)
(*                     lists of a small grid;                             *)
(*   SpecCsv         - the parsers of the static files over the texts of  *)
(*                     small tables;                                      *)
(*   SpecObligations - getStateObligations without the cache: the request *)
(*                     it posts and the mapping it builds;                *)
(*   SpecJoin        - the scatter pages' concurrent callbacks storing    *)
(*                     into yearMaps in every order of completion;        *)
(*   SpecLabels      - the bar charts' draws and data labels while the    *)
(*                     clock advances;                                    *)
(*   SpecReveal      - the word-by-word reveal of the text with the       *)
(*                     description / key-observations toggle;             *)
(*   SpecCharts      - the chart instances over loads, resize rebuilds    *)
(*                     and unmounts.                                      *)
(*                                                                         *)
(* Numbers are JavaScript doubles abstracted to exact rationals plus one  *)
(* non-finite value.  Rounding is modelled in computeRegression only,     *)
(* with MantissaBits significant bits.                                    *)
(***************************************************************************)
EXTENDS Integers, Sequences, FiniteSets, TLC

VARIABLES
    now,            \* Date.now(), in milliseconds
    OBLIG_CACHE,    \* the module-level Map<number, Map<string, number>>
    localStorage,   \* the persistent store, by key
    storageOk,      \* FALSE when every localStorage access throws
    calls,          \* SpecCache: the getStateObligations calls in progress
    last,           \* observer: the outcome of the call that completed last
    memTs,          \* observer: when the mapping held in OBLIG_CACHE was stored
    page,           \* Spec: the page that is open
    scenario,       \* Spec: the data behind the static files and the service
    pc,             \* where main() stands: idle, pop, static, fetching, done, failed
    slot,           \* per fiscal year: idle, inflight, ok, failed
    failedYears,    \* observer: the years whose request did not end with res.ok
    yearMaps,       \* the mappings main() holds (maps / fy24 / yearMaps)
    status,         \* the status line
    loading,        \* the loading flag of the pages that have one
    statusTimer,    \* the stand-alone page's setTimeout(() => setStatus(""), 700)
    chartRef,       \* the chart instance (chartRef.current / chart)
    preAvg,         \* observer: the loop's preAvg and bidenAvg of each state
    bidenAvg,
    preByState,     \* main()'s aggregates, as handed to buildChart
    fy24ByState,
    deltaByState,
    pointsByWinner,
    stateOrder,
    aggYears,       \* observer: the years yearMaps held when the aggregation ran
    stats,          \* the scatter pages' stats state (setStats)
    reg,            \* observer: what computeRegression returned to buildChart
    csvTable,       \* SpecCsv: the table a static file holds
    fileText,        \* SpecCsv: the file's text
    csvCall,        \* SpecCsv: the parser applied to the text, "none" before
    csvResult,      \* SpecCsv: what the parser returned
    request,        \* SpecObligations: the fiscal year asked for and the body posted
    response,       \* SpecObligations: out.results and the mapping returned
    yearEntries,    \* SpecJoin: yearMaps as a Map, its entries in insertion order
    perfNow,        \* SpecLabels: performance.now(), in milliseconds
    animStart,      \* chart.$_animStart, 0 while it is not set
    completedFlatIndex, \* chart.$_completedFlatIndex
    labelsShown,    \* the bars (flat indices) whose label display last evaluated true
    fetched,        \* SpecCache observer: the years with a response with res.ok so far
    viewMode,       \* SpecReveal: 'desc' or 'key'
    displayedWords, \* the number of words of the text that are shown
    animationTimeout, \* the pending setTimeout of the word effect
    wordIntervals,  \* the setInterval timers not yet cleared, in creation order
    effectDeps,     \* the dependencies the word effect last ran with
    canvasRef,      \* canvasRef.current is set: the run's canvas is in the document
    chartsOnCanvas, \* the chart instances on that canvas that were not destroyed
    detachedCharts, \* the most such instances on one canvas that left the document
    resizeTimer,    \* the stand-alone page's resizeTimer is pending
    rebuilt         \* observer: a resize has rebuilt the chart

domVars == <<canvasRef, chartsOnCanvas, detachedCharts, resizeTimer, rebuilt>>

runVars ==
    <<pc, slot, failedYears, yearMaps, status, loading, statusTimer, chartRef,
      preAvg, bidenAvg, preByState, fy24ByState, deltaByState, pointsByWinner, stateOrder, aggYears,
      stats, reg, domVars>>

pageVars == <<page, scenario, runVars>>

cacheVars == <<now, OBLIG_CACHE, localStorage, storageOk, calls, last, memTs>>

fnVars == <<csvTable, fileText, csvCall, csvResult, request, response>>

labelVars == <<perfNow, animStart, completedFlatIndex, labelsShown>>

revealVars == <<viewMode, displayedWords, animationTimeout, wordIntervals, effectDeps>>

auxVars == <<yearEntries, labelVars, fetched, revealVars>>

vars == <<cacheVars, pageVars, fnVars, auxVars>>

----------------------------------------------------------------------------
(* JavaScript values.  k = "num": the finite number n/d (d > 0, lowest     *)
(* terms); "nan": a non-finite double (NaN, and the infinities, which      *)
(* JSON.stringify and Number.isFinite treat alike); "null": JSON null;     *)
(* "undef": undefined (an absent Map key or object property).              *)

RECURSIVE GCD(_, _)
GCD(a, b) == IF b = 0 THEN a ELSE GCD(b, a % b)

Abs(i) == IF i < 0 THEN -i ELSE i

Rat(n, d) ==
    LET g == GCD(Abs(n), Abs(d))
        s == IF d < 0 THEN -1 ELSE 1
    IN  [k |-> "num", n |-> (s * n) \div g, d |-> (s * d) \div g]

Num(i) == [k |-> "num", n |-> i, d |-> 1]
NaN    == [k |-> "nan", n |-> 0, d |-> 1]
Null   == [k |-> "null", n |-> 0, d |-> 1]
Undef  == [k |-> "undef", n |-> 0, d |-> 1]

\* a ?? b
Coalesce(a, b) == IF a.k \in {"null", "undef"} THEN b ELSE a

\* a + b, a - b, a / b on numbers (operands are "num" or "nan")
Add(a, b) ==
    IF a.k = "num" /\ b.k = "num" THEN Rat(a.n * b.d + b.n * a.d, a.d * b.d) ELSE NaN

Sub(a, b) ==
    IF a.k = "num" /\ b.k = "num" THEN Rat(a.n * b.d - b.n * a.d, a.d * b.d) ELSE NaN

Div(a, b) ==
    IF a.k = "num" /\ b.k = "num" /\ b.n # 0 THEN Rat(a.n * b.d, a.d * b.n) ELSE NaN

\* a > 0  (false for NaN)
GtZero(a) == a.k = "num" /\ a.n > 0

\* Number.isFinite(a)
IsFinite(a) == a.k = "num"

----------------------------------------------------------------------------
(* The remote service and getStateObligations' response handling.          *)

preYears   == <<2017, 2018, 2019, 2020>>
bidenYears == <<2021, 2022, 2023, 2024>>
allYears   == preYears \o bidenYears

Range(s) == {s[i] : i \in DOMAIN s}

Years == Range(allYears)

\* states_50.json, cut to three states
StateList == <<"AL", "TX", "VT">>
States    == Range(StateList)

\* keys a response mapping can hold: upper-cased shape codes, '' for none
MapKeys == States \cup {"PR", ""}

NoCode == "<none>"

\* String.prototype.toUpperCase on the shape codes the service sends
ToUpperCase(s) ==
    CASE s = "vt" -> "VT"
      [] s = "tx" -> "TX"
      [] s = "al" -> "AL"
      [] OTHER    -> s

EmptyMap == [c \in MapKeys |-> Undef]

\* Number(x): a JSON number is itself, a non-numeric string is NaN
JsNumber(x) == IF x.k = "str" THEN NaN ELSE x

NonNumeric == [k |-> "str", n |-> 0, d |-> 1]

\* for (const r of results) map.set(String(r.shape_code || '').toUpperCase(),
\*                                  Number(r.aggregated_amount ?? 0))
RECURSIVE BuildMap(_)
BuildMap(results) ==
    IF results = <<>> THEN EmptyMap
    ELSE LET r    == results[Len(results)]
             rest == BuildMap(SubSeq(results, 1, Len(results) - 1))
             st   == ToUpperCase(IF r.shape_code = NoCode THEN "" ELSE r.shape_code)
             amt  == JsNumber(Coalesce(r.aggregated_amount, Num(0)))
         IN  [rest EXCEPT ![st] = amt]

\* The data of the remote service: scenario "base" and one deviation each
\* ("amtNaNMid": a non-numeric amount for the state in the middle of the
\* list, and no FY2024 row for the last one).
BaseAmount(st, fy) ==
    CASE st = "AL" -> fy - 2010
      [] st = "TX" -> IF fy \in Range(preYears)
                      THEN (CASE fy = 2017 -> 20 [] fy = 2018 -> 40
                              [] fy = 2019 -> 40 [] OTHER -> 60)
                      ELSE 20 * (fy - 2020)
      [] st = "VT" -> IF fy \in Range(preYears) THEN 4 * (fy - 2016)
                      ELSE IF fy = 2024 THEN 44 ELSE 40
      [] OTHER     -> 5

\* out.results of the response for fiscal year fy in scenario scn
ServiceResults(scn, fy) ==
    LET row(code, st) ==
            [shape_code |-> code,
             aggregated_amount |->
                 IF scn = "amtNaN" /\ st = "AL" /\ fy = 2018 THEN NonNumeric
                 ELSE IF scn = "amtNaNMid" /\ st = "TX" /\ fy = 2018 THEN NonNumeric
                 ELSE IF scn = "amtNull" /\ st = "AL" /\ fy = 2018 THEN Null
                 ELSE Num(BaseAmount(st, fy))]
        tx == IF scn = "amtMissing" /\ fy = 2019 THEN <<>> ELSE <<row("TX", "TX")>>
        vt == IF scn = "amtNaNMid" /\ fy = 2024 THEN <<>> ELSE <<row("vt", "VT")>>
    IN  IF scn = "noResults" THEN <<>>
        ELSE <<row("AL", "AL")>> \o tx \o vt \o <<row("PR", "PR"), row(NoCode, "")>>

\* how a request can end: res.ok, a non-OK HTTP status, fetch() rejecting
ResponseKinds == {"ok", "http_error", "network_error"}

\* mutant: usaspendingPost without its res.ok test; the error body has no
\* results
usaspendingPostNoOkTest(kind, scn, fy) ==
    CASE kind = "ok"         -> [threw |-> FALSE, results |-> ServiceResults(scn, fy)]
      [] kind = "http_error" -> [threw |-> FALSE, results |-> <<>>]
      [] OTHER               -> [threw |-> TRUE, results |-> <<>>]

\* mutant: usaspendingPost never throws; a failed request has no results
usaspendingPostNoThrow(kind, scn, fy) ==
    [threw |-> FALSE, results |-> IF kind = "ok" THEN ServiceResults(scn, fy) ELSE <<>>]

\* usaspendingPost: throws unless res.ok, else the parsed body's results
\* (out.results || [])
usaspendingPost(kind, scn, fy) ==
    IF kind = "ok" THEN [threw |-> FALSE, results |-> ServiceResults(scn, fy)]
    ELSE [threw |-> TRUE, results |-> <<>>]

----------------------------------------------------------------------------
(* The cache: OBLIG_CACHE in memory, localStorage underneath.              *)

CACHE_TTL_MS == 1000 * 60 * 60 * 24

\* mutant: a key that leaves the fiscal year out
cacheKeyNoYear(fy) == "usaspending_oblig_"

\* `usaspending_oblig_${fy}`
cacheKey(fy) == "usaspending_oblig_" \o ToString(fy)

CacheKeys == {cacheKey(fy) : fy \in Years}

NoEntry      == [kind |-> "absent",  ts |-> 0, data |-> EmptyMap]
GarbageEntry == [kind |-> "garbage", ts |-> 0, data |-> EmptyMap]

NoMem == [has |-> FALSE, map |-> EmptyMap]

\* JSON.stringify then JSON.parse of the map's entries: a non-finite number
\* is written as null and read back as null
JsonRoundTrip(map) == [c \in MapKeys |-> IF map[c].k = "nan" THEN Null ELSE map[c]]

\* mutant: an entry exactly CACHE_TTL_MS old counts as expired
ExpiredAtTtl(ts, t) == t - ts >= CACHE_TTL_MS

\* Date.now() - parsed.ts > CACHE_TTL_MS
Expired(ts, t) == t - ts > CACHE_TTL_MS

\* The body of loadCachedObligations' try block for a key not in memory:
\* localStorage.getItem, JSON.parse, the TTL test, new Map(parsed.data).
\* kind "throw" is an exception raised inside the block.
TryLoadStorage(fy) ==
    LET e == localStorage[cacheKey(fy)]
    IN  IF ~storageOk THEN [kind |-> "throw", map |-> EmptyMap, ts |-> 0]
        ELSE IF e.kind = "absent" THEN [kind |-> "miss", map |-> EmptyMap, ts |-> 0]
        ELSE IF e.kind = "garbage" THEN [kind |-> "throw", map |-> EmptyMap, ts |-> 0]
        ELSE IF Expired(e.ts, now) THEN [kind |-> "miss", map |-> EmptyMap, ts |-> 0]
        ELSE [kind |-> "hit", map |-> e.data, ts |-> e.ts]

\* mutant: loadCachedObligations without its try/catch
loadCachedObligationsNoCatch(fy) ==
    IF OBLIG_CACHE[fy].has
    THEN [kind |-> "hit", map |-> OBLIG_CACHE[fy].map, ts |-> memTs[fy], from |-> "mem"]
    ELSE LET t == TryLoadStorage(fy)
         IN  [kind |-> t.kind, map |-> t.map, ts |-> t.ts,
              from |-> IF t.kind = "hit" THEN "ls" ELSE ""]

\* loadCachedObligations(fy): the in-memory entry if there is one (no TTL
\* test), else the stored one; the catch block turns an exception into null.
\* from: the layer that served the hit; ts: when the served mapping was stored.
loadCachedObligations(fy) ==
    IF OBLIG_CACHE[fy].has
    THEN [kind |-> "hit", map |-> OBLIG_CACHE[fy].map, ts |-> memTs[fy], from |-> "mem"]
    ELSE LET t == TryLoadStorage(fy)
         IN  IF t.kind = "throw"
             THEN [kind |-> "miss", map |-> EmptyMap, ts |-> 0, from |-> ""]
             ELSE [kind |-> t.kind, map |-> t.map, ts |-> t.ts,
                   from |-> IF t.kind = "hit" THEN "ls" ELSE ""]

\* OBLIG_CACHE after loadCachedObligations(fy): a hit in storage is copied
\* into memory
CacheAfterLoad(cache, fy) ==
    LET r == loadCachedObligations(fy)
    IN  IF r.kind = "hit" /\ r.from = "ls"
        THEN [cache EXCEPT ![fy] = [has |-> TRUE, map |-> r.map]]
        ELSE cache

\* The body of saveCachedObligations' try block: localStorage.setItem of
\* {ts: Date.now(), data: entries}.  writeOk = FALSE: setItem throws.
TrySetItem(store, fy, map, writeOk) ==
    IF storageOk /\ writeOk
    THEN [threw |-> FALSE,
          store |-> [store EXCEPT ![cacheKey(fy)] =
                        [kind |-> "entry", ts |-> now, data |-> JsonRoundTrip(map)]]]
    ELSE [threw |-> TRUE, store |-> store]

\* saveCachedObligations(fy, map): memory first, then storage; a storage
\* error is ignored
saveCachedObligations(cache, store, fy, map, writeOk) ==
    [cache |-> [cache EXCEPT ![fy] = [has |-> TRUE, map |-> map]],
     store |-> TrySetItem(store, fy, map, writeOk).store,
     threw |-> FALSE]

----------------------------------------------------------------------------
(* The pages.  Each page's main() loads its static files, fetches the      *)
(* fiscal years it needs, aggregates and calls buildChart.                 *)

Pages == {"totals", "home", "percapita", "delta", "pres", "house"}

\* totals: the stand-alone first chart; home: app/page.tsx; percapita:
\* per-capita bars; delta: app/delta-biden; pres, house: the scatter pages
BarPages     == {"totals", "home", "percapita"}
ScatterPages == {"pres", "house"}

\* the years main() fetches, in the order it asks for them
FetchYears(pg) == IF pg \in BarPages THEN preYears \o <<2024>> ELSE allYears

\* Promise.all over allYears.map(async ...) instead of an awaiting loop
Concurrent(pg) == pg \in ScatterPages

\* the page's getStateObligations goes through loadCachedObligations and
\* saveCachedObligations
Cached(pg) == pg \in {"home", "house"}

\* the static files and the service's data: "base" and one deviation each
Scenarios ==
    {"base", "amtMissing", "amtNaN", "amtNaNMid", "popMissing", "popZero", "popNaN",
     "marginMissing", "winnerMissing", "winnerOther"}

\* `${st}-${fy}`
popKey(st, fy) == st \o "-" \o ToString(fy)

\* popMap.get(key) for the population table of the scenario
PopGet(sc, st, fy) ==
    CASE sc = "popMissing" /\ st = "TX" /\ fy = 2019 -> Undef
      [] sc = "popZero" /\ st = "TX" /\ fy = 2019    -> Num(0)
      [] sc = "popNaN" /\ st = "TX" /\ fy = 2022     -> NaN
      [] st = "AL" -> Num(1)
      [] st = "TX" -> Num(2)
      [] OTHER     -> Num(4)

\* margins.get(st) for the electoral table of the scenario
MarginGet(sc, st) ==
    CASE sc = "marginMissing" /\ st = "VT" -> Undef
      [] st = "AL" -> Rat(-1, 5)
      [] st = "TX" -> Rat(1, 10)
      [] OTHER     -> Rat(3, 10)

\* winnerMap[st] of winner_2020.json
NoWinner == "<undefined>"

WinnerGet(sc, st) ==
    CASE sc = "winnerOther" /\ st = "VT"   -> "Other"
      [] sc = "winnerMissing" /\ st = "AL" -> NoWinner
      [] st = "VT" -> "Biden"
      [] OTHER     -> "Trump"

NoYearMap == [has |-> FALSE, map |-> EmptyMap]

\* yearMaps.get(fy)?.get(st)
YearMapGet(ym, fy, st) == IF ym[fy].has THEN ym[fy].map[st] ELSE Undef

\* vals.reduce((s, v) => s + v, 0)
RECURSIVE SumSeq(_)
SumSeq(vals) ==
    IF vals = <<>> THEN Num(0)
    ELSE Add(SumSeq(SubSeq(vals, 1, Len(vals) - 1)), vals[Len(vals)])

\* pop > 0 ? amt / pop : 0, with pop = popMap.get(key) ?? 0 and
\* amt = yearMaps.get(fy)?.get(st) ?? 0
PerCapita(sc, ym, st, fy) ==
    LET pop == Coalesce(PopGet(sc, st, fy), Num(0))
        amt == Coalesce(YearMapGet(ym, fy, st), Num(0))
    IN  IF GtZero(pop) THEN Div(amt, pop) ELSE Num(0)

\* mutant: the mean over the years that have a per-capita value
WindowAverageOverPresent(sc, ym, st, years) ==
    LET present == {i \in DOMAIN years :
                       /\ YearMapGet(ym, years[i], st).k \notin {"undef", "null"}
                       /\ GtZero(Coalesce(PopGet(sc, st, years[i]), Num(0)))}
    IN  Div(SumSeq([i \in DOMAIN years |-> PerCapita(sc, ym, st, years[i])]),
            Num(Cardinality(present)))

\* years.reduce((s, fy) => s + perCapita, 0) / years.length
WindowAverage(sc, ym, st, years) ==
    Div(SumSeq([i \in DOMAIN years |-> PerCapita(sc, ym, st, years[i])]),
        Num(Len(years)))

\* maps.map(m => m.get(st) ?? 0) summed and divided by vals.length
TotalsAverage(ym, st, years) ==
    Div(SumSeq([i \in DOMAIN years |-> Coalesce(YearMapGet(ym, years[i], st), Num(0))]),
        Num(Len(years)))

\* preByState of the bar pages
PreByState(pg, sc, ym) ==
    [st \in States |->
        IF pg = "percapita" THEN WindowAverage(sc, ym, st, preYears)
        ELSE TotalsAverage(ym, st, preYears)]

\* fy24ByState of the bar pages
Fy24ByState(pg, sc, ym) ==
    [st \in States |->
        IF pg = "percapita" THEN PerCapita(sc, ym, st, 2024)
        ELSE Coalesce(YearMapGet(ym, 2024, st), Num(0))]

\* mutant: preAvg - bidenAvg
DeltaByStateReversed(sc, ym) ==
    [st \in States |->
        Sub(WindowAverage(sc, ym, st, preYears), WindowAverage(sc, ym, st, bidenYears))]

\* mutant: the delta of the total obligations, not of the per-capita ones
DeltaByStateOfTotals(sc, ym) ==
    [st \in States |->
        Sub(TotalsAverage(ym, st, bidenYears), TotalsAverage(ym, st, preYears))]

\* deltaByState.set(st, bidenAvg - preAvg) for every st of states
DeltaByState(sc, ym) ==
    [st \in States |->
        Sub(WindowAverage(sc, ym, st, bidenYears), WindowAverage(sc, ym, st, preYears))]

\* a < b on finite numbers
Less(a, b) == a.n * b.d < b.n * a.d

\* Math.max(a, b)
MathMax(a, b) ==
    IF a.k # "num" \/ b.k # "num" THEN NaN ELSE IF Less(a, b) THEN b ELSE a

NoPoints == [Biden |-> <<>>, Trump |-> <<>>, Unknown |-> <<>>]

\* the scatter pages' loop over the first n states: a state is skipped when
\* an average is not finite or it has no margin; its point goes to the list
\* of its 2020 winner, if pointsByWinner has such a list
RECURSIVE PointsByWinner(_, _, _)
PointsByWinner(sc, ym, n) ==
    IF n = 0 THEN NoPoints
    ELSE LET acc      == PointsByWinner(sc, ym, n - 1)
             st       == StateList[n]
             pre      == WindowAverage(sc, ym, st, preYears)
             biden    == WindowAverage(sc, ym, st, bidenYears)
             margin   == MarginGet(sc, st)
             winner   == IF WinnerGet(sc, st) = NoWinner THEN "Unknown"
                         ELSE WinnerGet(sc, st)
             pt       == [x |-> Sub(biden, pre), y |-> margin, state |-> st]
         IN  IF ~IsFinite(pre) \/ ~IsFinite(biden) THEN acc
             ELSE IF margin.k = "undef" THEN acc
             ELSE IF winner \notin DOMAIN acc THEN acc
             ELSE [acc EXCEPT ![winner] = Append(@, pt)]

\* what the comparator reads for a state: Math.max(pre ?? 0, fy24 ?? 0) on
\* the bar pages, deltaByState.get(st) ?? 0 on the delta page
SortKey(pg, pre, fy24, delta) ==
    [st \in States |->
        IF pg = "delta" THEN Coalesce(delta[st], Num(0))
        ELSE MathMax(Coalesce(pre[st], Num(0)), Coalesce(fy24[st], Num(0)))]

\* the comparator's result for states a, b: ma - mb on the bar pages,
\* delta(b) - delta(a) on the delta page
Compare(pg, key, a, b) ==
    IF pg = "delta" THEN Sub(key[b], key[a]) ELSE Sub(key[a], key[b])

\* Array.prototype.sort as a stable insertion sort; a comparator result that
\* is NaN counts as 0
RECURSIVE InsertSorted(_, _, _, _)
InsertSorted(sorted, x, pg, key) ==
    IF sorted = <<>> THEN <<x>>
    ELSE LET y == sorted[Len(sorted)]
         IN  IF GtZero(Compare(pg, key, y, x))
             THEN Append(InsertSorted(SubSeq(sorted, 1, Len(sorted) - 1), x, pg, key), y)
             ELSE Append(sorted, x)

RECURSIVE SortStates(_, _, _)
SortStates(seq, pg, key) ==
    IF seq = <<>> THEN <<>>
    ELSE InsertSorted(SortStates(SubSeq(seq, 1, Len(seq) - 1), pg, key),
                      seq[Len(seq)], pg, key)

Reverse(seq) == [i \in DOMAIN seq |-> seq[Len(seq) + 1 - i]]

\* stateOrder: by max(pre, fy24) ascending, then reversed, on the bar
\* pages; by delta descending on the delta page
StateOrder(pg, pre, fy24, delta) ==
    IF pg = "delta" THEN SortStates(StateList, pg, SortKey(pg, pre, fy24, delta))
    ELSE Reverse(SortStates(StateList, pg, SortKey(pg, pre, fy24, delta)))

----------------------------------------------------------------------------
(* computeRegression.  Its arithmetic is floating point: every operation   *)
(* rounds its exact result to the nearest number with MantissaBits         *)
(* significant bits, ties to even (exponents are not limited).             *)

MantissaBits == 4

\* the integer nearest to n/d, ties to even (n >= 0, d > 0)
RoundHalfEven(n, d) ==
    LET q == n \div d
        r == n - q * d
    IN  IF 2 * r < d THEN q
        ELSE IF 2 * r > d THEN q + 1
        ELSE IF q % 2 = 0 THEN q ELSE q + 1

\* m * 2^e
Scaled(m, e) == IF e >= 0 THEN Num(m * (2 ^ e)) ELSE Rat(m, 2 ^ (-e))

\* the float nearest to (n/d) * 2^e, n/d > 0: n/d is brought into
\* [2^(MantissaBits-1), 2^MantissaBits) and rounded to an integer
RECURSIVE FlPos(_, _, _)
FlPos(n, d, e) ==
    IF n >= (2 ^ MantissaBits) * d THEN FlPos(n, 2 * d, e + 1)
    ELSE IF n < (2 ^ (MantissaBits - 1)) * d THEN FlPos(2 * n, d, e - 1)
    ELSE Scaled(RoundHalfEven(n, d), e)

Neg(a) == IF a.k = "num" THEN Rat(-a.n, a.d) ELSE a

\* the rounding every floating-point operation ends with
Fl(a) ==
    IF a.k # "num" \/ a.n = 0 THEN a
    ELSE IF a.n > 0 THEN FlPos(a.n, a.d, 0)
    ELSE Neg(FlPos(-a.n, a.d, 0))

Mul(a, b) ==
    IF a.k = "num" /\ b.k = "num" THEN Rat(a.n * b.n, a.d * b.d) ELSE NaN

\* a + b, a - b, a * b, a / b as the program computes them
FAdd(a, b) == Fl(Add(a, b))
FSub(a, b) == Fl(Sub(a, b))
FMul(a, b) == Fl(Mul(a, b))
FDiv(a, b) == Fl(Div(a, b))

\* vals.reduce((a, b) => a + b, 0)
RECURSIVE Reduce(_)
Reduce(vals) ==
    IF vals = <<>> THEN Num(0)
    ELSE FAdd(Reduce(SubSeq(vals, 1, Len(vals) - 1)), vals[Len(vals)])

\* let ss = 0; for (i < n) ss += ds[i] * es[i]
RECURSIVE SumOfProducts(_, _, _)
SumOfProducts(ds, es, n) ==
    IF n = 0 THEN Num(0)
    ELSE FAdd(SumOfProducts(ds, es, n - 1), FMul(ds[n], es[n]))

\* Math.min(...xs), Math.max(...xs)
RECURSIVE MathMin(_)
MathMin(xs) ==
    IF Len(xs) = 1 THEN xs[1]
    ELSE LET m == MathMin(SubSeq(xs, 1, Len(xs) - 1))
         IN  IF Less(xs[Len(xs)], m) THEN xs[Len(xs)] ELSE m

RECURSIVE MathMaxOf(_)
MathMaxOf(xs) ==
    IF Len(xs) = 1 THEN xs[1]
    ELSE MathMax(MathMaxOf(SubSeq(xs, 1, Len(xs) - 1)), xs[Len(xs)])

\* 2 * (1 - normalCdf(|t|)) as a function of t * t, kept to the side of 0.05
\* it lies on: 1 at t = 0, 1/2 while |t| is below the 5% point of the normal
\* distribution (t * t <= 3.84), 1/100 beyond it
PValue(t2) ==
    IF t2.n = 0 THEN Num(1)
    ELSE IF ~Less(Rat(96, 25), t2) THEN Rat(1, 2)
    ELSE Rat(1, 100)

\* the return value null
NoFit ==
    [fit |-> FALSE, slope |-> Null, intercept |-> Null, r2 |-> Null, p |-> Null,
     line |-> <<>>]

\* t is 0 when the standard error is 0, slope / se otherwise; t * t is
\* slope * slope / (se * se)
TSquared(slope, seSquared) ==
    IF seSquared.n = 0 THEN Num(0) ELSE Div(Mul(slope, slope), seSquared)

\* the ratio inverted
SlopeOverY(ssXY, ssX) == FDiv(ssX, ssXY)

\* slope = ssXY / ssX
Slope(ssXY, ssX) == FDiv(ssXY, ssX)

computeRegression(points) ==
    LET n  == Len(points)
        xs == [i \in 1..n |-> points[i].x]
        ys == [i \in 1..n |-> points[i].y]
        xBar == FDiv(Reduce(xs), Num(n))
        yBar == FDiv(Reduce(ys), Num(n))
        dx == [i \in 1..n |-> FSub(xs[i], xBar)]
        dy == [i \in 1..n |-> FSub(ys[i], yBar)]
        ssX  == SumOfProducts(dx, dx, n)
        ssY  == SumOfProducts(dy, dy, n)
        ssXY == SumOfProducts(dx, dy, n)
        slope == Slope(ssXY, ssX)
        intercept == FSub(yBar, FMul(slope, xBar))
        res == [i \in 1..n |-> FSub(ys[i], FAdd(FMul(slope, xs[i]), intercept))]
        sse == SumOfProducts(res, res, n)
        r2 == FSub(Num(1), FDiv(sse, ssY))
        seSquared == FDiv(FDiv(sse, Num(n - 2)), ssX)
        minX == MathMin(xs)
        maxX == MathMaxOf(xs)
    IN  IF n < 3 THEN NoFit
        ELSE IF ssX.n = 0 \/ ssY.n = 0 THEN NoFit
        ELSE [fit |-> TRUE, slope |-> slope, intercept |-> intercept, r2 |-> r2,
              p |-> PValue(TSquared(slope, seSquared)),
              line |-> <<[x |-> minX, y |-> FAdd(FMul(slope, minX), intercept)],
                         [x |-> maxX, y |-> FAdd(FMul(slope, maxX), intercept)]>>]

\* either test is enough
RelevantEither(rg) ==
    IF rg.fit THEN Less(rg.p, Rat(5, 100)) \/ ~Less(rg.r2, Rat(1, 10)) ELSE FALSE

\* reg ? reg.p < 0.05 && reg.r2 >= 0.1 : false
Relevant(rg) ==
    IF rg.fit THEN Less(rg.p, Rat(5, 100)) /\ ~Less(rg.r2, Rat(1, 10)) ELSE FALSE

\* the state setStats writes: null until a fit exists
NoStats == [set |-> FALSE, r2 |-> Null, p |-> Null, relevant |-> FALSE]

Stats(rg) ==
    IF rg.fit THEN [set |-> TRUE, r2 |-> rg.r2, p |-> rg.p, relevant |-> Relevant(rg)]
    ELSE NoStats

\* the 'Trend' dataset as buildChart creates it: the line is drawn in by
\* animating borderDashOffset from 1000 to 0 over the pattern [1000, 1000]
\* when the fit is relevant, and is dashed [4, 4] when it is not
NoTrend ==
    [data |-> <<>>, borderDash |-> <<>>, borderDashOffset |-> 0, relevant |-> FALSE,
     finalized |-> FALSE]

TrendDataset(rg) ==
    [data |-> IF rg.fit THEN rg.line ELSE <<>>,
     borderDash |-> IF Relevant(rg) THEN <<1000, 1000>> ELSE <<4, 4>>,
     borderDashOffset |-> 1000,
     relevant |-> Relevant(rg),
     finalized |-> FALSE]

\* animation.onComplete: the pattern is cleared for a relevant fit
TrendFinalized(trend) ==
    [trend EXCEPT !.borderDash = IF trend.relevant THEN <<>> ELSE <<4, 4>>,
                  !.borderDashOffset = 0,
                  !.finalized = TRUE]

----------------------------------------------------------------------------
(* The chart.                                                              *)

NotComputed == [st \in States |-> Undef]

NoChart ==
    [live |-> FALSE, labels |-> <<>>, series |-> <<>>, points |-> <<>>, trend |-> NoTrend]

\* allPoints: [...Biden, ...Trump, ...Unknown]
AllPoints(pts) == pts.Biden \o pts.Trump \o pts.Unknown

\* the chart buildChart creates: the bar pages' two datasets over labels,
\* the delta page's one, the scatter pages' points (Biden, Trump, Unknown)
\* and trend line
BuiltChart(pg, order, pre, fy24, delta, pts, rg) ==
    [live   |-> TRUE,
     labels |-> order,
     series |-> IF pg \in BarPages
                THEN <<[i \in DOMAIN order |-> Coalesce(pre[order[i]], Num(0))],
                       [i \in DOMAIN order |-> Coalesce(fy24[order[i]], Num(0))]>>
                ELSE IF pg = "delta"
                THEN <<[i \in DOMAIN order |-> Coalesce(delta[order[i]], Num(0))]>>
                ELSE <<>>,
     points |-> AllPoints(pts),
     trend  |-> IF pg \in ScatterPages THEN TrendDataset(rg) ELSE NoTrend]

\* the handle is dropped and its chart never destroyed
DestroyedNever(live, n) == n

\* the handle's destroy(), as every caller guards it:
\* if (chartRef.current) chartRef.current.destroy(), destroyChart()
Destroyed(live, n) == IF live THEN n - 1 ELSE n

\* the instances on the canvas after buildChart: the chart the handle holds
\* is destroyed (by destroyChart() before the call on the stand-alone page),
\* the scatter pages also destroy what ChartJS.getChart(canvas) finds, and
\* new Chart adds one
ChartsAfterBuild(pg, live, n) ==
    (IF pg \in ScatterPages THEN 0 ELSE Destroyed(live, n)) + 1

\* buildChart: nothing without a canvas (the stand-alone page's is always
\* in its document); on the scatter pages the regression over all points
\* and the stats state when there is a fit; and the chart
BuildChart(pg, order, pre, fy24, delta, pts) ==
    IF ~canvasRef
    THEN UNCHANGED <<reg, stats, chartRef, chartsOnCanvas>>
    ELSE /\ reg' = IF pg \in ScatterPages THEN computeRegression(AllPoints(pts)) ELSE reg
         /\ stats' = IF pg \in ScatterPages /\ reg'.fit THEN Stats(reg') ELSE stats
         /\ chartRef' = BuiltChart(pg, order, pre, fy24, delta, pts, reg')
         /\ chartsOnCanvas' = ChartsAfterBuild(pg, chartRef.live, chartsOnCanvas)

----------------------------------------------------------------------------
(* The static tables' parsers.  A text is a sequence of characters, a      *)
(* field a sequence of characters, a Map a sequence of entries in          *)
(* insertion order.                                                        *)

Quote == "\""
Comma == ","
LF    == "\n"
CR    == "\r"
Space == " "
Dash  == "-"

Digits == <<"0", "1", "2", "3", "4", "5", "6", "7", "8", "9">>

WhiteSpace == {Space, LF, CR}

\* the locals of parseCSV's loop before the first character; skip is set
\* when the loop's i++ has taken the next character with this one
ParseStart == [cur |-> <<>>, row |-> <<>>, rows |-> <<>>, inQuotes |-> FALSE, skip |-> FALSE]

\* one pass of the loop, at character i: the branches of its if / else
\* chain as the arms of one CASE, each with the tests that lead to it
ParseStep(text, i, st) ==
    CASE st.skip -> [st EXCEPT !.skip = FALSE]
      [] ~st.skip /\ text[i] = Quote
            /\ (st.inQuotes /\ i < Len(text) /\ text[i + 1] = Quote) ->
             [st EXCEPT !.cur = Append(@, Quote), !.skip = TRUE]
      [] ~st.skip /\ text[i] = Quote
            /\ ~(st.inQuotes /\ i < Len(text) /\ text[i + 1] = Quote) ->
             [st EXCEPT !.inQuotes = ~@]
      [] ~st.skip /\ text[i] = Comma /\ ~st.inQuotes ->
             [st EXCEPT !.cur = <<>>, !.row = Append(@, st.cur)]
      [] ~st.skip /\ text[i] = LF /\ ~st.inQuotes ->
             [st EXCEPT !.cur = <<>>, !.row = <<>>,
                        !.rows = Append(@, Append(st.row, st.cur))]
      [] ~st.skip /\ text[i] = CR -> st
      [] OTHER -> [st EXCEPT !.cur = Append(@, text[i])]

\* the same pass without the doubled-quote case: a quote toggles inQuotes
\* and is dropped
ParseStepNoEscape(text, i, st) ==
    CASE text[i] = Quote -> [st EXCEPT !.inQuotes = ~@]
      [] text[i] = Comma /\ ~st.inQuotes ->
             [st EXCEPT !.cur = <<>>, !.row = Append(@, st.cur)]
      [] text[i] = LF /\ ~st.inQuotes ->
             [st EXCEPT !.cur = <<>>, !.row = <<>>,
                        !.rows = Append(@, Append(st.row, st.cur))]
      [] text[i] = CR -> st
      [] OTHER -> [st EXCEPT !.cur = Append(@, text[i])]

\* the loop of parseCSV over the characters lo..hi in order, from the
\* locals st (the range is halved and its first half evaluated before the
\* second is entered, which keeps the evaluation shallow)
RECURSIVE ParseFrom(_, _, _, _)
ParseFrom(text, lo, hi, st) ==
    IF lo > hi THEN st
    ELSE IF lo = hi THEN ParseStep(text, lo, st)
    ELSE LET mid  == (lo + hi) \div 2
             left == ParseFrom(text, lo, mid, st)
         IN  IF left.inQuotes \in BOOLEAN THEN ParseFrom(text, mid + 1, hi, left) ELSE left

RECURSIVE ParseFromNoEscape(_, _, _, _)
ParseFromNoEscape(text, lo, hi, st) ==
    IF lo > hi THEN st
    ELSE IF lo = hi THEN ParseStepNoEscape(text, lo, st)
    ELSE LET mid  == (lo + hi) \div 2
             left == ParseFromNoEscape(text, lo, mid, st)
         IN  IF left.inQuotes \in BOOLEAN THEN ParseFromNoEscape(text, mid + 1, hi, left) ELSE left

\* after the loop: the last row, unless it is empty
ParseEnd(st) ==
    IF Len(st.cur) > 0 \/ Len(st.row) > 0 THEN Append(st.rows, Append(st.row, st.cur))
    ELSE st.rows

parseCSVNoEscape(text) == ParseEnd(ParseFromNoEscape(text, 1, Len(text), ParseStart))

parseCSV(text) == ParseEnd(ParseFrom(text, 1, Len(text), ParseStart))

\* text.trim()
RECURSIVE TrimStart(_)
TrimStart(s) ==
    IF Len(s) > 0 /\ s[1] \in WhiteSpace THEN TrimStart(SubSeq(s, 2, Len(s))) ELSE s

RECURSIVE TrimEnd(_)
TrimEnd(s) ==
    IF Len(s) > 0 /\ s[Len(s)] \in WhiteSpace THEN TrimEnd(SubSeq(s, 1, Len(s) - 1)) ELSE s

Trim(s) == TrimEnd(TrimStart(s))

\* s.split(sep) for a one-character separator: the pieces between the
\* separators, at least one
RECURSIVE Split(_, _)
Split(s, sep) ==
    IF \A i \in DOMAIN s : s[i] # sep THEN <<s>>
    ELSE LET k == CHOOSE i \in DOMAIN s : s[i] = sep /\ \A j \in 1..(i - 1) : s[j] # sep
         IN  <<SubSeq(s, 1, k - 1)>> \o Split(SubSeq(s, k + 1, Len(s)), sep)

\* text.split(/\r?\n/): a CR before the LF belongs to the separator
SplitLines(s) ==
    LET pieces == Split(s, LF)
    IN  [i \in DOMAIN pieces |->
            IF i < Len(pieces) /\ Len(pieces[i]) > 0 /\ pieces[i][Len(pieces[i])] = CR
            THEN SubSeq(pieces[i], 1, Len(pieces[i]) - 1)
            ELSE pieces[i]]

\* an array element or destructured name: undefined past the end (and at
\* index -1, which is 0 here: positions count from 1)
NoField == [def |-> FALSE, s |-> <<>>]

At(r, idx) == IF idx \in DOMAIN r THEN [def |-> TRUE, s |-> r[idx]] ELSE NoField

\* !f for a string or undefined
Falsy(f) == ~f.def \/ Len(f.s) = 0

DigitValue(ch) == (CHOOSE d \in DOMAIN Digits : Digits[d] = ch) - 1

RECURSIVE Decimal(_)
Decimal(s) ==
    IF Len(s) = 0 THEN 0
    ELSE 10 * Decimal(SubSeq(s, 1, Len(s) - 1)) + DigitValue(s[Len(s)])

\* Number(s) for a string: white space is trimmed, the empty string is 0,
\* a run of digits its value, anything else NaN
NumberOfString(s) ==
    LET t == Trim(s)
    IN  IF Len(t) = 0 THEN Num(0)
        ELSE IF \A i \in DOMAIN t : \E d \in DOMAIN Digits : Digits[d] = t[i]
        THEN Num(Decimal(t))
        ELSE NaN

\* Number(f): NaN for undefined
NumberOf(f) == IF f.def THEN NumberOfString(f.s) ELSE NaN

\* Number(f || 0)
NumberOrZero(f) == IF Falsy(f) THEN Num(0) ELSE NumberOfString(f.s)

\* header.indexOf(name), counted from 1: 0 when the name is absent
IndexOfField(header, name) ==
    IF \E i \in DOMAIN header : header[i] = name
    THEN CHOOSE i \in DOMAIN header : header[i] = name /\ \A j \in 1..(i - 1) : header[j] # name
    ELSE 0

\* Map.prototype.has, get and set
MapHas(m, key) == \E i \in DOMAIN m : m[i].key = key

MapGet(m, key) == m[CHOOSE i \in DOMAIN m : m[i].key = key].val

MapSet(m, key, val) ==
    IF MapHas(m, key)
    THEN [i \in DOMAIN m |-> IF m[i].key = key THEN [key |-> key, val |-> val] ELSE m[i]]
    ELSE Append(m, [key |-> key, val |-> val])

ST           == <<"S", "T">>
VotesDem2024 == <<"V", "o", "t", "e", "s", "_", "D", "e", "m", "_", "2", "0", "2", "4">>
VotesGOP2024 == <<"V", "o", "t", "e", "s", "_", "G", "O", "P", "_", "2", "0", "2", "4">>

\* rows[0] ?? []
Header(rows) == IF Len(rows) > 0 THEN rows[1] ELSE <<>>

\* the Democratic share of the two-party vote
MarginAsShare(dem, gop) == Div(dem, Add(dem, gop))

\* (dem - gop) / total
Margin(dem, gop) == Div(Sub(dem, gop), Add(dem, gop))

\* mapPresMargins' loop over rows 2..n of the parsed table
RECURSIVE PresLoop(_, _, _, _, _)
PresLoop(rows, n, idxSt, idxDem, idxGop) ==
    IF n <= 1 THEN <<>>
    ELSE LET out   == PresLoop(rows, n - 1, idxSt, idxDem, idxGop)
             r     == rows[n]
             st    == At(r, idxSt)
             dem   == NumberOrZero(At(r, idxDem))
             gop   == NumberOrZero(At(r, idxGop))
             total == Add(dem, gop)
         IN  IF Falsy(st) THEN out
             ELSE IF total = Num(0) THEN out
             ELSE MapSet(out, st.s, Margin(dem, gop))

mapPresMargins(csvText) ==
    LET rows   == parseCSV(csvText)
        header == Header(rows)
    IN  PresLoop(rows, Len(rows), IndexOfField(header, ST),
                 IndexOfField(header, VotesDem2024), IndexOfField(header, VotesGOP2024))

\* a non-numeric field makes the state's total NaN
AddAlways(x, v) == Add(x, v)

\* x += Number.isNaN(v) ? 0 : v
AddUnlessNaN(x, v) == IF v.k = "nan" THEN x ELSE Add(x, v)

\* mapHouseMargins' first loop: the totals per state
RECURSIVE HouseTotals(_, _, _, _, _)
HouseTotals(rows, n, idxSt, idxDem, idxGop) ==
    IF n <= 1 THEN <<>>
    ELSE LET totals == HouseTotals(rows, n - 1, idxSt, idxDem, idxGop)
             r      == rows[n]
             st     == At(r, idxSt)
             dem    == NumberOrZero(At(r, idxDem))
             gop    == NumberOrZero(At(r, idxGop))
             cur    == IF MapHas(totals, st.s) THEN MapGet(totals, st.s)
                       ELSE [dem |-> Num(0), gop |-> Num(0)]
         IN  IF Falsy(st) THEN totals
             ELSE MapSet(totals, st.s,
                         [dem |-> AddUnlessNaN(cur.dem, dem), gop |-> AddUnlessNaN(cur.gop, gop)])

\* mapHouseMargins' second loop: the margins of the first n totals
RECURSIVE HouseMargins(_, _)
HouseMargins(totals, n) ==
    IF n = 0 THEN <<>>
    ELSE LET out   == HouseMargins(totals, n - 1)
             t     == totals[n].val
             total == Add(t.dem, t.gop)
         IN  IF total = Num(0) THEN out
             ELSE MapSet(out, totals[n].key, Margin(t.dem, t.gop))

mapHouseMargins(csvText) ==
    LET rows   == parseCSV(csvText)
        header == Header(rows)
        totals == HouseTotals(rows, Len(rows), IndexOfField(header, ST),
                              IndexOfField(header, VotesDem2024),
                              IndexOfField(header, VotesGOP2024))
    IN  HouseMargins(totals, Len(totals))

\* `${state}-${fy}`
PopKeyOf(state, fy) == state \o <<Dash>> \o fy

\* parsePopulationCSV's loop over lines 2..n
RECURSIVE PopLoop(_, _)
PopLoop(lines, n) ==
    IF n <= 1 THEN <<>>
    ELSE LET map   == PopLoop(lines, n - 1)
             parts == Split(lines[n], Comma)
             state == At(parts, 1)
             fy    == At(parts, 2)
             pop   == At(parts, 3)
         IN  IF Falsy(state) \/ Falsy(fy) THEN map
             ELSE MapSet(map, PopKeyOf(state.s, fy.s), NumberOf(pop))

\* the header line is a data row too
parsePopulationCSVFromFirstLine(text) ==
    LET lines == SplitLines(Trim(text))
    IN  PopLoop(<<<<>>>> \o lines, Len(lines) + 1)

parsePopulationCSV(text) ==
    LET lines == SplitLines(Trim(text))
    IN  PopLoop(lines, Len(lines))

----------------------------------------------------------------------------
(* SpecCsv: the parsers of the static files, applied to the texts of small *)
(* tables.                                                                 *)

MaxRows == 2

ListsUpTo(S, n) == UNION {[1..k -> S] : k \in 0..n}

AL == <<"A", "L">>
TX == <<"T", "X">>

\* an electoral table: its header names and, per row, the state code and
\* the two vote fields; a column the header lacks is not in the file
MarginHeaders ==
    {<<ST, VotesDem2024, VotesGOP2024>>, <<VotesDem2024, VotesGOP2024, ST>>,
     <<VotesDem2024, VotesGOP2024>>, <<ST, VotesGOP2024>>, <<ST, VotesDem2024>>}

MarginRows ==
    [st : {AL, TX, <<>>}, dem : {<<"6", "0">>, <<"0">>, <<"x">>}, gop : {<<"4", "0">>, <<"0">>}]

MarginTables ==
    [kind : {"margins"}, header : MarginHeaders, rows : ListsUpTo(MarginRows, MaxRows)]

\* a population table: rows of one to three fields (state, fiscal year,
\* population), lines ended by LF or CR LF, the last one ended or not
PopHeader ==
    <<<<"s", "t", "a", "t", "e">>, <<"f", "i", "s", "c", "a", "l", "_", "y", "e", "a", "r">>,
      <<"p", "o", "p">>>>

FY2019 == <<"2", "0", "1", "9">>
FY2020 == <<"2", "0", "2", "0">>

PopRows ==
    {<<AL>>, <<<<>>>>, <<AL, FY2019>>}
      \cup {<<st, fy, pop>> : st \in {AL, <<>>}, fy \in {FY2019, FY2020, <<>>},
                                pop \in {<<"5">>, <<"x">>, <<>>}}

PopTables ==
    [kind : {"pop"}, header : {PopHeader}, rows : ListsUpTo(PopRows, MaxRows),
     crlf : BOOLEAN, final : BOOLEAN]

\* a table whose fields hold quotes, commas and line ends, two fields a row
QuotedFields == {<<>>, <<"a", Quote>>, <<Comma>>, <<LF, "a">>, <<CR, LF>>}

QuotedTables ==
    [kind : {"quoted"}, rows : ListsUpTo([1..2 -> QuotedFields], MaxRows),
     quoteAll : BOOLEAN]

NoTable == [kind |-> "none"]

\* the fields joined by sep
RECURSIVE Join(_, _)
Join(fields, sep) ==
    IF Len(fields) = 0 THEN <<>>
    ELSE IF Len(fields) = 1 THEN fields[1]
    ELSE Join(SubSeq(fields, 1, Len(fields) - 1), sep) \o sep \o fields[Len(fields)]

\* every line followed by the line end
RECURSIVE Lines(_, _)
Lines(lines, eol) ==
    IF Len(lines) = 0 THEN <<>>
    ELSE Lines(SubSeq(lines, 1, Len(lines) - 1), eol) \o lines[Len(lines)] \o eol

\* a field as standard CSV writes it: in quotes when it holds a quote, a
\* comma or a line end (or always), its quotes doubled
RECURSIVE DoubleQuotes(_)
DoubleQuotes(f) ==
    IF Len(f) = 0 THEN <<>>
    ELSE DoubleQuotes(SubSeq(f, 1, Len(f) - 1))
           \o (IF f[Len(f)] = Quote THEN <<Quote, Quote>> ELSE <<f[Len(f)]>>)

QuotedField(f, quoteAll) ==
    IF quoteAll \/ \E i \in DOMAIN f : f[i] \in {Quote, Comma, LF, CR}
    THEN <<Quote>> \o DoubleQuotes(f) \o <<Quote>>
    ELSE f

MarginCell(row, name) ==
    IF name = ST THEN row.st ELSE IF name = VotesDem2024 THEN row.dem ELSE row.gop

\* the text of the file that holds table t
WriteTable(t) ==
    CASE t.kind = "margins" ->
           Lines(<<Join(t.header, <<Comma>>)>>
                   \o [i \in DOMAIN t.rows |->
                          Join([j \in DOMAIN t.header |-> MarginCell(t.rows[i], t.header[j])],
                               <<Comma>>)],
                 <<LF>>)
      [] t.kind = "pop" ->
           LET eol  == IF t.crlf THEN <<CR, LF>> ELSE <<LF>>
               text == Lines(<<Join(t.header, <<Comma>>)>>
                               \o [i \in DOMAIN t.rows |-> Join(t.rows[i], <<Comma>>)], eol)
           IN  IF t.final THEN text ELSE SubSeq(text, 1, Len(text) - Len(eol))
      [] OTHER ->
           Lines([i \in DOMAIN t.rows |->
                     Join([j \in DOMAIN t.rows[i] |-> QuotedField(t.rows[i][j], t.quoteAll)],
                          <<Comma>>)],
                 <<LF>>)

\* what a parser call leaves: none of the parsers has a throw, so a call
\* returns its value
NoReturn == [threw |-> FALSE, value |-> <<>>]

Return(v) == [threw |-> FALSE, value |-> v]

CsvIdle ==
    /\ csvTable = NoTable
    /\ fileText = <<>>
    /\ csvCall = "none"
    /\ csvResult = NoReturn

----------------------------------------------------------------------------
(* The request getStateObligations posts.                                  *)

\* `${y}-10-01`, `${y}-09-30`
StartDate(y) == ToString(y) \o "-10-01"
EndDate(y)   == ToString(y) \o "-09-30"

\* the body getStateObligations(fy) posts
RequestBody(fy) ==
    [scope     |-> "place_of_performance",
     geo_layer |-> "state",
     filters   |-> [time_period |->
                       <<[start_date |-> StartDate(fy - 1), end_date |-> EndDate(fy)]>>]]

Endpoint == "/api/v2/search/spending_by_geography/"

NoRequest == [pc |-> "idle", fy |-> 0, endpoint |-> "", body |-> RequestBody(0)]

NoResponse == [results |-> <<>>, outcome |-> "none", map |-> EmptyMap]

ObligationsIdle ==
    /\ request = NoRequest
    /\ response = NoResponse

\* no parser call and no request of the function specifications
FnIdle == CsvIdle /\ ObligationsIdle

\* the variables of the remaining specifications at rest
JoinIdle == yearEntries = <<>>

\* chart.$_completedFlatIndex before the first draw
NoFlatIndex == [def |-> FALSE, v |-> 0]

\* no chart has drawn; the page has been open for a second
LabelsIdle ==
    /\ perfNow = 1000
    /\ animStart = 0
    /\ completedFlatIndex = NoFlatIndex
    /\ labelsShown = {}

NothingFetched == fetched = {}

----------------------------------------------------------------------------
(* The word-by-word reveal of the text beside the chart, on the pages with *)
(* a description / key-observations toggle: home (app/page.tsx, app/iija   *)
(* has the same effect) and house.  The texts are shortened to MaxWords    *)
(* and MaxWords - 1 words: on every page the description is the longer     *)
(* text.                                                                   *)

MaxWords == 3

\* the timers a run keeps at once
MaxIntervals == 3

RevealPages == {"home", "house"}

\* words.length of the text of a view mode
WordCount(mode) == IF mode = "desc" THEN MaxWords ELSE MaxWords - 1

\* no setTimeout pending
NoTimeout == [set |-> FALSE, length |-> 0]

\* the effect has not run
NoDeps == [ran |-> FALSE, loading |-> FALSE, viewMode |-> "desc"]

\* [loading, words.length, viewMode] on the home page, [words.length,
\* viewMode] on the House page; words.length follows from viewMode
Deps(pg, ld, mode) ==
    [ran |-> TRUE, loading |-> IF pg = "home" THEN ld ELSE FALSE, viewMode |-> mode]

\* a timer made by setInterval: its closure's wordIndex and words.length,
\* whether an effect cleanup holds its id (clearInterval on the next run or
\* the unmount), and whether its setDisplayedWords reaches a mounted
\* component
Interval(len, held) == [wordIndex |-> 0, length |-> len, held |-> held, mounted |-> TRUE]

RECURSIVE Unheld(_)
Unheld(ivs) ==
    IF ivs = <<>> THEN <<>>
    ELSE IF ivs[1].held THEN Unheld(Tail(ivs))
    ELSE <<ivs[1]>> \o Unheld(Tail(ivs))

\* the cleanup the effect's last run returned: clearTimeout(animationTimeout)
\* on the home page (none when that run returned early), and
\* clearInterval(wordInterval) on the House page
EffectCleanup(pg, tmo, ivs) ==
    [timeout |-> NoTimeout, intervals |-> IF pg = "house" THEN Unheld(ivs) ELSE ivs]

\* the word effect runs for the view mode: its last cleanup, then its body
WordEffect(pg, ld, live, mode, tmo, ivs, shown) ==
    LET c == EffectCleanup(pg, tmo, ivs)
    IN  IF pg = "house"
        THEN [displayedWords |-> 0, timeout |-> c.timeout,
              intervals |-> Append(c.intervals, Interval(WordCount(mode), TRUE))]
        ELSE IF ld \/ ~live
        THEN [displayedWords |-> shown, timeout |-> c.timeout, intervals |-> c.intervals]
        ELSE [displayedWords |-> 0, timeout |-> [set |-> TRUE, length |-> WordCount(mode)],
              intervals |-> c.intervals]

\* the component unmounts: the cleanup runs, the timers left go on without
\* a component, and the next instance starts from useState's values
UnmountReveal ==
    LET c == EffectCleanup(page, animationTimeout, wordIntervals)
    IN  /\ viewMode' = "desc"
        /\ displayedWords' = 0
        /\ animationTimeout' = c.timeout
        /\ wordIntervals' = [i \in DOMAIN c.intervals |->
                                [c.intervals[i] EXCEPT !.mounted = FALSE]]
        /\ effectDeps' = NoDeps

RevealIdle ==
    /\ viewMode = "desc"
    /\ displayedWords = 0
    /\ animationTimeout = NoTimeout
    /\ wordIntervals = <<>>
    /\ effectDeps = NoDeps

\* a new document: no timer of the old one is left
RevealReset ==
    /\ viewMode' = "desc"
    /\ displayedWords' = 0
    /\ animationTimeout' = NoTimeout
    /\ wordIntervals' = <<>>
    /\ effectDeps' = NoDeps

AuxIdle == JoinIdle /\ LabelsIdle /\ NothingFetched /\ RevealIdle

----------------------------------------------------------------------------
(* main() as a state machine.  A step runs from one await to the next; the *)
(* microtasks a settled promise releases run within the step.  The status  *)
(* line is kept up to its kind: loading, fetching, cleared, failure.       *)

MaxFail == 1

Callers == {"c1", "c2"}

IdleCall == [pc |-> "idle", fy |-> 0]

\* the outcome of the call that completed last
NoOutcome ==
    [outcome |-> "none", fy |-> 0, result |-> EmptyMap, requested |-> FALSE,
     from |-> "", age |-> 0, resp |-> "", overwrote |-> FALSE]

StatusLoading  == "Loading..."
StatusFetching == "Fetching..."
StatusFailed   == "Failed to load data"

\* the component (or document) before main() starts
\* a canvas in the document, no chart, no timer
DomIdle ==
    /\ canvasRef = TRUE
    /\ chartsOnCanvas = 0
    /\ detachedCharts = 0
    /\ resizeTimer = FALSE
    /\ rebuilt = FALSE

\* a new document
DomReset ==
    /\ canvasRef' = TRUE
    /\ chartsOnCanvas' = 0
    /\ detachedCharts' = 0
    /\ resizeTimer' = FALSE
    /\ rebuilt' = FALSE

\* the effect cleanup of main()'s effect, which only the scatter pages
\* have: chartRef.current.destroy(), chartRef.current = null
CleanupCharts(pg, live, n) == IF pg \in ScatterPages THEN Destroyed(live, n) ELSE n

\* the component unmounts: its canvas leaves the document with the charts
\* the cleanup left on it, and the next instance renders a new one
UnmountCharts ==
    LET left == CleanupCharts(page, chartRef.live, chartsOnCanvas)
    IN  /\ detachedCharts' = IF left > detachedCharts THEN left ELSE detachedCharts
        /\ chartsOnCanvas' = 0
        /\ canvasRef' = TRUE
        /\ UNCHANGED <<resizeTimer, rebuilt>>

NoRun ==
    /\ pc = "idle"
    /\ slot = [fy \in Years |-> "idle"]
    /\ failedYears = {}
    /\ yearMaps = [fy \in Years |-> NoYearMap]
    /\ status = StatusLoading
    /\ loading = TRUE
    /\ statusTimer = FALSE
    /\ DomIdle
    /\ chartRef = NoChart
    /\ preAvg = NotComputed
    /\ bidenAvg = NotComputed
    /\ preByState = NotComputed
    /\ fy24ByState = NotComputed
    /\ deltaByState = NotComputed
    /\ pointsByWinner = NoPoints
    /\ stateOrder = <<>>
    /\ aggYears = {}
    /\ stats = NoStats
    /\ reg = NoFit

\* a new component instance (or document): fresh state, fresh refs
FreshRun ==
    /\ pc' = "idle"
    /\ slot' = [fy \in Years |-> "idle"]
    /\ failedYears' = {}
    /\ yearMaps' = [fy \in Years |-> NoYearMap]
    /\ status' = StatusLoading
    /\ loading' = TRUE
    /\ statusTimer' = FALSE
    /\ chartRef' = NoChart
    /\ preAvg' = NotComputed
    /\ bidenAvg' = NotComputed
    /\ preByState' = NotComputed
    /\ fy24ByState' = NotComputed
    /\ deltaByState' = NotComputed
    /\ pointsByWinner' = NoPoints
    /\ stateOrder' = <<>>
    /\ aggYears' = {}
    /\ stats' = NoStats
    /\ reg' = NoFit

\* getStateObligations(fy) returns from the cache
Hit(pg, fy) == Cached(pg) /\ loadCachedObligations(fy).kind = "hit"

\* the first index from i on whose year is not served by the cache
RECURSIVE FirstMiss(_, _)
FirstMiss(pg, i) ==
    IF i > Len(FetchYears(pg)) THEN i
    ELSE IF Hit(pg, FetchYears(pg)[i]) THEN FirstMiss(pg, i + 1)
    ELSE i

\* the years the cache serves when main() goes on from index i: all hits on
\* the concurrent pages, the hits before the first miss on the others
Served(pg, i) ==
    IF Concurrent(pg) THEN {fy \in Range(FetchYears(pg)) : Hit(pg, fy)}
    ELSE {FetchYears(pg)[k] : k \in i .. (FirstMiss(pg, i) - 1)}

\* the years whose request is posted then
Asked(pg, i) ==
    IF Concurrent(pg) THEN Range(FetchYears(pg)) \ Served(pg, i)
    ELSE IF FirstMiss(pg, i) <= Len(FetchYears(pg))
         THEN {FetchYears(pg)[FirstMiss(pg, i)]}
         ELSE {}

IndexOf(pg, fy) == CHOOSE k \in DOMAIN FetchYears(pg) : FetchYears(pg)[k] = fy

\* mutant: the join releases main() as soon as one fetch has resolved
PromiseAny(pg, sl) == \E fy \in Range(FetchYears(pg)) : sl[fy] = "ok"

\* await Promise.all(allYears.map(async (fy) => ...)) is released: every
\* year's callback has stored its mapping
PromiseAll(pg, sl) == \A fy \in Range(FetchYears(pg)) : sl[fy] = "ok"

\* the fetch phase is over and main() goes on to aggregate
FetchesDone(pg, sl) ==
    IF Concurrent(pg) THEN PromiseAll(pg, sl)
    ELSE \A fy \in Range(FetchYears(pg)) : sl[fy] = "ok"

outVars ==
    <<aggYears, preAvg, bidenAvg, preByState, fy24ByState, deltaByState, pointsByWinner, stateOrder,
      chartRef, statusTimer, loading, stats, reg, domVars>>

\* the rest of main() after the fetches: the aggregation over the state
\* list, the ordering, buildChart, and the status line cleared (by a timer
\* on the stand-alone page)
Finish(ym) ==
    /\ aggYears' = {fy \in Years : ym[fy].has}
    /\ preAvg' = IF page \in BarPages THEN preAvg
                 ELSE [st \in States |-> WindowAverage(scenario, ym, st, preYears)]
    /\ bidenAvg' = IF page \in BarPages THEN bidenAvg
                   ELSE [st \in States |-> WindowAverage(scenario, ym, st, bidenYears)]
    /\ preByState' = IF page \in BarPages THEN PreByState(page, scenario, ym)
                     ELSE preByState
    /\ fy24ByState' = IF page \in BarPages THEN Fy24ByState(page, scenario, ym)
                      ELSE fy24ByState
    /\ deltaByState' = IF page = "delta" THEN DeltaByState(scenario, ym)
                       ELSE deltaByState
    /\ pointsByWinner' = IF page \in ScatterPages
                         THEN PointsByWinner(scenario, ym, Len(StateList))
                         ELSE pointsByWinner
    /\ stateOrder' = IF page \in ScatterPages THEN stateOrder
                     ELSE StateOrder(page, preByState', fy24ByState', deltaByState')
    /\ BuildChart(page, stateOrder', preByState', fy24ByState', deltaByState',
                  pointsByWinner')
    /\ UNCHANGED <<canvasRef, detachedCharts, resizeTimer, rebuilt>>
    /\ status' = IF page = "totals" THEN status ELSE ""
    /\ statusTimer' = (page = "totals")
    /\ loading' = IF page \in {"home", "percapita", "delta"} THEN FALSE ELSE loading
    /\ pc' = "done"

\* main() goes on from index i of its years: the years the cache serves are
\* stored, the next request (every missing year's, on the concurrent pages)
\* is posted, and with no request to wait for main() finishes
Proceed(i, ym0, sl0, cache0, mts0) ==
    LET served == Served(page, i)
        asked  == Asked(page, i)
        ym1    == [fy \in Years |->
                      IF fy \in served
                      THEN [has |-> TRUE, map |-> loadCachedObligations(fy).map]
                      ELSE ym0[fy]]
        sl1    == [fy \in Years |->
                      IF fy \in served THEN "ok"
                      ELSE IF fy \in asked THEN "inflight" ELSE sl0[fy]]
    IN  /\ yearMaps' = ym1
        /\ slot' = sl1
        /\ OBLIG_CACHE' = [fy \in Years |->
                              IF fy \in served THEN CacheAfterLoad(cache0, fy)[fy]
                              ELSE cache0[fy]]
        /\ memTs' = [fy \in Years |->
                        IF fy \in served THEN loadCachedObligations(fy).ts
                        ELSE mts0[fy]]
        /\ IF FetchesDone(page, sl1)
           THEN Finish(ym1)
           ELSE /\ pc' = "fetching"
                /\ status' = StatusFetching
                /\ UNCHANGED outVars

\* the effect runs main() (the script runs main() on the stand-alone page)
Mount ==
    /\ pc = "idle"
    /\ pc' = IF page \in {"percapita", "delta"} THEN "pop" ELSE "static"
    /\ status' = StatusLoading
    /\ UNCHANGED <<cacheVars, page, scenario, slot, failedYears, yearMaps, outVars>>
    /\ UNCHANGED <<fnVars, auxVars>>

\* await loadText(population csv) of the per-capita bar pages settles
PopLoaded(ok) ==
    /\ pc = "pop"
    /\ pc' = IF ok THEN "static" ELSE "failed"
    /\ status' = IF ok THEN StatusLoading ELSE StatusFailed
    /\ UNCHANGED <<cacheVars, page, scenario, slot, failedYears, yearMaps, outVars>>
    /\ UNCHANGED <<fnVars, auxVars>>

\* await Promise.all([...static files]) settles
StaticLoaded(ok) ==
    /\ pc = "static"
    /\ IF ok
       THEN Proceed(1, yearMaps, slot, OBLIG_CACHE, memTs)
       ELSE /\ pc' = "failed"
            /\ status' = StatusFailed
            /\ UNCHANGED <<yearMaps, slot, OBLIG_CACHE, memTs, outVars>>
    /\ UNCHANGED <<now, localStorage, storageOk, calls, last, page, scenario, failedYears>>
    /\ UNCHANGED <<fnVars, auxVars>>

\* the request for fiscal year fy settles
FetchSettle(fy, kind) ==
    /\ slot[fy] = "inflight"
    /\ kind # "ok" => Cardinality(failedYears) < MaxFail
    /\ LET r      == usaspendingPost(kind, scenario, fy)
           map    == BuildMap(r.results)
           s      == saveCachedObligations(OBLIG_CACHE, localStorage, fy, map, TRUE)
           cache0 == IF Cached(page) THEN s.cache ELSE OBLIG_CACHE
           mts0   == IF Cached(page) THEN [memTs EXCEPT ![fy] = now] ELSE memTs
           ym0    == [yearMaps EXCEPT ![fy] = [has |-> TRUE, map |-> map]]
           sl0    == [slot EXCEPT ![fy] = "ok"]
       IN  /\ failedYears' = IF kind = "ok" THEN failedYears ELSE failedYears \cup {fy}
           /\ IF r.threw
              THEN /\ slot' = [slot EXCEPT ![fy] = "failed"]
                   /\ pc' = IF pc = "fetching" THEN "failed" ELSE pc
                   /\ status' = IF pc = "fetching" THEN StatusFailed ELSE status
                   /\ UNCHANGED <<yearMaps, OBLIG_CACHE, localStorage, memTs, outVars>>
              ELSE /\ localStorage' = IF Cached(page) THEN s.store ELSE localStorage
                   /\ IF pc = "fetching" /\ ~Concurrent(page)
                      THEN Proceed(IndexOf(page, fy) + 1, ym0, sl0, cache0, mts0)
                      ELSE /\ yearMaps' = ym0
                           /\ slot' = sl0
                           /\ OBLIG_CACHE' = cache0
                           /\ memTs' = mts0
                           /\ IF pc = "fetching" /\ FetchesDone(page, sl0)
                              THEN Finish(ym0)
                              ELSE UNCHANGED <<pc, status, outVars>>
    /\ UNCHANGED <<now, storageOk, calls, last, page, scenario>>
    /\ UNCHANGED <<fnVars, auxVars>>

\* the stand-alone page's timer clears the status line
StatusTimer ==
    /\ statusTimer
    /\ status' = ""
    /\ statusTimer' = FALSE
    /\ UNCHANGED <<cacheVars, page, scenario, pc, slot, failedYears, yearMaps,
                   aggYears, preAvg, bidenAvg, preByState, fy24ByState, deltaByState,
                   pointsByWinner, stateOrder, chartRef, loading, stats, reg, domVars>>
    /\ UNCHANGED <<fnVars, auxVars>>

\* the chart's draw-in animation completes (animation.onComplete): the
\* trend line gets its final pattern
AnimationComplete ==
    /\ chartRef.live
    /\ page \in ScatterPages
    /\ ~chartRef.trend.finalized
    /\ chartRef' = [chartRef EXCEPT !.trend = TrendFinalized(@)]
    /\ UNCHANGED <<cacheVars, page, scenario, pc, slot, failedYears, yearMaps, status,
                   loading, statusTimer, aggYears, preAvg, bidenAvg, preByState,
                   fy24ByState, deltaByState, pointsByWinner, stateOrder, stats, reg, domVars>>
    /\ UNCHANGED <<fnVars, auxVars>>

\* a full page load: the module is evaluated again, requests in flight are
\* dropped, localStorage stays
Reload ==
    /\ OBLIG_CACHE' = [fy \in Years |-> NoMem]
    /\ calls' = [c \in Callers |-> IdleCall]
    /\ last' = NoOutcome
    /\ memTs' = [fy \in Years |-> 0]
    /\ FreshRun
    /\ DomReset
    /\ RevealReset
    /\ UNCHANGED <<now, localStorage, storageOk, page, scenario>>
    /\ UNCHANGED <<fnVars, yearEntries, labelVars, fetched>>

\* client-side navigation away from a page whose main() has ended: the
\* component goes, the module and its OBLIG_CACHE stay
Unmount ==
    /\ page # "totals"
    /\ pc \in {"done", "failed"}
    /\ \A fy \in Years : slot[fy] # "inflight"
    /\ FreshRun
    /\ UnmountCharts
    /\ UnmountReveal
    /\ UNCHANGED <<cacheVars, page, scenario>>
    /\ UNCHANGED <<fnVars, yearEntries, labelVars, fetched>>

Init ==
    /\ now = 0
    /\ OBLIG_CACHE = [fy \in Years |-> NoMem]
    /\ storageOk = TRUE
    /\ localStorage = [key \in CacheKeys |-> NoEntry]
    /\ calls = [c \in Callers |-> IdleCall]
    /\ last = NoOutcome
    /\ memTs = [fy \in Years |-> 0]
    /\ page \in Pages
    /\ scenario \in Scenarios
    /\ NoRun
    /\ FnIdle
    /\ AuxIdle

Next ==
    \/ Mount
    \/ \E ok \in BOOLEAN : PopLoaded(ok)
    \/ \E ok \in BOOLEAN : StaticLoaded(ok)
    \/ \E fy \in Years, kind \in ResponseKinds : FetchSettle(fy, kind)
    \/ StatusTimer
    \/ AnimationComplete
    \/ Reload
    \/ Unmount

Spec == Init /\ [][Next]_vars

----------------------------------------------------------------------------
(* Claims about main(), checked under Spec.                                *)

\* C1: once the request of any fiscal year has failed (non-OK status or
\* network error), the run has halted: the status line is the failure
\* message, no aggregate of the run exists and buildChart was not called.
C1_FailedFetchHalts ==
    failedYears # {} =>
        /\ pc = "failed"
        /\ status = StatusFailed
        /\ ~chartRef.live
        /\ aggYears = {}
        /\ preAvg = NotComputed /\ bidenAvg = NotComputed
        /\ preByState = NotComputed /\ fy24ByState = NotComputed
        /\ deltaByState = NotComputed
        /\ pointsByWinner = NoPoints

\* C1 witness: a run that had stored some years' mappings when another
\* year's request failed
C1_Witness ==
    /\ failedYears # {}
    /\ \E fy \in Years : yearMaps[fy].has
    /\ status = StatusFailed

\* C2: on the scatter pages the averages, deltas and points exist only if
\* the aggregation ran with the mappings of all eight years in yearMaps.
C2_BarrierBeforeAggregation ==
    page \in ScatterPages =>
        ((pc = "done" \/ chartRef.live \/ preAvg # NotComputed \/ aggYears # {})
            => /\ aggYears = Years
               /\ \A fy \in Years : yearMaps[fy].has)

\* C2 witness: a scatter page's run finished after eight requests were in
\* flight together
C2_Witness ==
    /\ page = "pres"
    /\ pc = "done"
    /\ aggYears = Years
    /\ chartRef.live

\* the per-capita value a fiscal year contributes to a state's window
C8_Contribution(st, fy) ==
    LET pop == PopGet(scenario, st, fy)
        amt == YearMapGet(yearMaps, fy, st)
    IN  IF amt.k \in {"undef", "null"} THEN Num(0)
        ELSE IF ~(pop.k = "num" /\ pop.n > 0) THEN Num(0)
        ELSE Div(amt, pop)

\* the sum of a four-year window's contributions over the number of years
C8_Mean(st, years) ==
    Div(Add(Add(C8_Contribution(st, years[1]), C8_Contribution(st, years[2])),
            Add(C8_Contribution(st, years[3]), C8_Contribution(st, years[4]))),
        Num(Len(years)))

\* C8: every window average a finished run computed is the sum of the
\* window's per-capita values over the number of its years, a year without
\* an obligation entry or without a positive population contributing 0;
\* per-capita values 10, 20, missing, 30 average to 15.
C8_WindowAverage ==
    pc = "done" =>
        /\ page = "percapita" =>
               \A st \in States : preByState[st] = C8_Mean(st, preYears)
        /\ page \in {"delta", "pres", "house"} =>
               \A st \in States : /\ preAvg[st] = C8_Mean(st, preYears)
                                  /\ bidenAvg[st] = C8_Mean(st, bidenYears)
        /\ (scenario \in {"amtMissing", "popMissing", "popZero"}
               /\ page \in {"delta", "pres", "house"}) => preAvg["TX"] = Num(15)
        /\ (scenario \in {"amtMissing", "popMissing", "popZero"}
               /\ page = "percapita") => preByState["TX"] = Num(15)

\* C8 witness: the window 10, 20, missing, 30 was averaged
C8_Witness ==
    /\ pc = "done"
    /\ page = "delta"
    /\ scenario = "amtMissing"
    /\ YearMapGet(yearMaps, 2019, "TX") = Undef
    /\ YearMapGet(yearMaps, 2017, "TX") = Num(20)
    /\ preAvg["TX"] = Num(15)

\* C9: on the delta page every listed state has one deltaByState entry,
\* the FY2021-2024 window average minus the FY2017-2020 one; averages 15
\* and 25 give 10.
C9_DeltaIsDifference ==
    (pc = "done" /\ page = "delta") =>
        /\ DOMAIN deltaByState = States
        /\ \A st \in States :
               /\ deltaByState[st].k # "undef"
               /\ deltaByState[st] = Sub(C8_Mean(st, bidenYears), C8_Mean(st, preYears))
        /\ scenario = "amtMissing" =>
               /\ preAvg["TX"] = Num(15)
               /\ bidenAvg["TX"] = Num(25)
               /\ deltaByState["TX"] = Num(10)

\* C9 witness: baseline 15 and current 25 on the delta page
C9_Witness ==
    /\ pc = "done"
    /\ page = "delta"
    /\ preAvg["TX"] = Num(15)
    /\ bidenAvg["TX"] = Num(25)
    /\ deltaByState["TX"] = Num(10)

\* the population of st is zero or missing for some fiscal year
C10_NoPopulation(st) ==
    \E fy \in Years : PopGet(scenario, st, fy) \in {Undef, Num(0)}

\* C10: a state whose population is zero or missing for a fiscal year has
\* no point among those a scatter page passes to the regression.
C10_NoPopulationExcluded ==
    (pc = "done" /\ page \in ScatterPages) =>
        \A st \in States :
            C10_NoPopulation(st) =>
                \A i \in DOMAIN chartRef.points : chartRef.points[i].state # st

\* the mappings main() holds when every year comes from the service
C7_NetworkYearMaps ==
    [fy \in Years |->
        IF fy \in Range(FetchYears(page))
        THEN [has |-> TRUE, map |-> BuildMap(ServiceResults(scenario, fy))]
        ELSE NoYearMap]

\* C7: whatever mix of service and cache served the years, a finished run
\* has the aggregates and points of a run served by the service alone.
C7_CacheTransparent ==
    pc = "done" =>
        /\ page \in BarPages =>
               /\ preByState = PreByState(page, scenario, C7_NetworkYearMaps)
               /\ fy24ByState = Fy24ByState(page, scenario, C7_NetworkYearMaps)
        /\ page = "delta" => deltaByState = DeltaByState(scenario, C7_NetworkYearMaps)
        /\ page \in ScatterPages =>
               pointsByWinner =
                   PointsByWinner(scenario, C7_NetworkYearMaps, Len(StateList))

----------------------------------------------------------------------------
(* SpecCache: getStateObligations (page.tsx, scatter-house) under          *)
(* concurrent callers.                                                     *)

MaxTicks == 2

TickMs == CACHE_TTL_MS

CacheYears == {2017, 2018}

\* what a successful response may carry
CacheResponses == {"base", "amtNaN"}

InitCache ==
    /\ now = 0
    /\ OBLIG_CACHE = [fy \in Years |-> NoMem]
    /\ storageOk \in BOOLEAN
    /\ localStorage \in [CacheKeys -> {NoEntry, GarbageEntry}]
    /\ \A fy \in Years \ CacheYears : localStorage[cacheKey(fy)] = NoEntry
    /\ storageOk = FALSE => \A key \in CacheKeys : localStorage[key] = NoEntry
    /\ calls = [c \in Callers |-> IdleCall]
    /\ last = NoOutcome
    /\ memTs = [fy \in Years |-> 0]
    /\ page = "home"
    /\ scenario = "base"
    /\ NoRun
    /\ FnIdle
    /\ AuxIdle

\* getStateObligations(fy) up to its first await: a cache hit returns, a
\* miss posts the request
Call(c, fy) ==
    /\ calls[c].pc = "idle"
    /\ LET r == loadCachedObligations(fy)
       IN  /\ OBLIG_CACHE' = CacheAfterLoad(OBLIG_CACHE, fy)
           /\ memTs' = IF r.kind = "hit" THEN [memTs EXCEPT ![fy] = r.ts] ELSE memTs
           /\ CASE r.kind = "hit" ->
                     /\ calls' = calls
                     /\ last' = [NoOutcome EXCEPT !.outcome = "returned", !.fy = fy,
                                     !.result = r.map, !.from = r.from,
                                     !.age = now - r.ts]
                [] r.kind = "miss" ->
                     /\ calls' = [calls EXCEPT ![c] = [pc |-> "awaiting", fy |-> fy]]
                     /\ last' = last
                [] OTHER ->  \* an exception escaping loadCachedObligations
                     /\ calls' = calls
                     /\ last' = [NoOutcome EXCEPT !.outcome = "threw", !.fy = fy]
    /\ UNCHANGED <<now, localStorage, storageOk, pageVars>>
    /\ UNCHANGED <<fnVars, auxVars>>

\* the request settles: usaspendingPost throws, or the map is built from
\* the results, saved and returned
Respond(c, kind, scn, writeOk) ==
    /\ calls[c].pc = "awaiting"
    /\ LET fy  == calls[c].fy
           r   == usaspendingPost(kind, scn, fy)
           map == BuildMap(r.results)
           s   == saveCachedObligations(OBLIG_CACHE, localStorage, fy, map, writeOk)
       IN  IF r.threw
           THEN /\ last' = [NoOutcome EXCEPT !.outcome = "threw", !.fy = fy,
                                             !.requested = TRUE, !.from = "net"]
                /\ UNCHANGED <<OBLIG_CACHE, localStorage, memTs>>
           ELSE /\ OBLIG_CACHE' = s.cache
                /\ localStorage' = s.store
                /\ memTs' = [memTs EXCEPT ![fy] = now]
                /\ last' = [outcome |-> IF s.threw THEN "threw" ELSE "returned",
                            fy |-> fy, result |-> IF s.threw THEN EmptyMap ELSE map,
                            requested |-> TRUE, from |-> "net", age |-> 0,
                            resp |-> scn, overwrote |-> OBLIG_CACHE[fy].has]
    /\ calls' = [calls EXCEPT ![c] = IdleCall]
    /\ UNCHANGED <<now, storageOk, pageVars>>
    /\ fetched' = IF kind = "ok" THEN fetched \cup {calls[c].fy} ELSE fetched
    /\ UNCHANGED <<fnVars, yearEntries, labelVars, revealVars>>

Tick ==
    /\ now < MaxTicks * TickMs
    /\ now' = now + TickMs
    /\ UNCHANGED <<OBLIG_CACHE, localStorage, storageOk, calls, last, memTs, pageVars>>
    /\ UNCHANGED <<fnVars, auxVars>>

NextCache ==
    \/ \E c \in Callers, fy \in CacheYears : Call(c, fy)
    \/ \E c \in Callers, kind \in ResponseKinds, scn \in CacheResponses, w \in BOOLEAN :
           Respond(c, kind, scn, w)
    \/ Tick
    \/ Reload

SpecCache == InitCache /\ [][NextCache]_vars

----------------------------------------------------------------------------
(* Claims about the cache, checked under SpecCache.                        *)

\* the mappings a successful response for fy can produce
FetchedMappings(fy) == {BuildMap(ServiceResults(scn, fy)) : scn \in CacheResponses}

\* C3: getStateObligations never returns, without a network request, a
\* mapping stored more than 24 hours earlier, whichever layer holds it.
\* (Refuted: an entry of OBLIG_CACHE is returned whatever its age.)
C3_NoStaleHit ==
    (last.outcome = "returned" /\ ~last.requested) => last.age <= CACHE_TTL_MS

\* a non-expired entry for fy in memory or in localStorage
FreshEntry(fy) ==
    \/ OBLIG_CACHE[fy].has /\ now - memTs[fy] <= CACHE_TTL_MS
    \/ /\ storageOk
       /\ localStorage[cacheKey(fy)].kind = "entry"
       /\ now - localStorage[cacheKey(fy)].ts <= CACHE_TTL_MS

StoredMapping(fy) ==
    IF OBLIG_CACHE[fy].has THEN OBLIG_CACHE[fy].map ELSE localStorage[cacheKey(fy)].data

\* C4: whenever a non-expired cache entry for fy exists, in memory or in
\* localStorage, a call getStateObligations(fy) issues no network request
\* and returns the stored mapping.
C4_FreshHitNoRequest ==
    [][\A c \in Callers, fy \in CacheYears :
          (Call(c, fy) /\ FreshEntry(fy)) =>
              /\ calls'[c].pc = "idle"
              /\ last'.outcome = "returned"
              /\ ~last'.requested
              /\ last'.fy = fy
              /\ last'.result = StoredMapping(fy)]_vars

\* C4 witness: a call served from localStorage by an entry exactly 24 h old.
C4_Witness ==
    /\ last.outcome = "returned"
    /\ ~last.requested
    /\ last.from = "ls"
    /\ last.age = CACHE_TTL_MS

\* C5: a missing, unparseable or unreadable stored entry and a failing
\* cache write never make getStateObligations fail: a call throws only when
\* its request failed, and a call whose request succeeded returns the mapping
\* built from the response.
C5_StorageTroubleHarmless ==
    /\ last.outcome = "threw" => (last.requested /\ last.resp = "")
    /\ (last.outcome = "returned" /\ last.requested) =>
           last.result = BuildMap(ServiceResults(last.resp, last.fy))

\* C5 witness: a fetched mapping returned although storage is unreadable, or
\* although the unparseable entry is still there because the write failed.
C5_Witness ==
    /\ last.outcome = "returned"
    /\ last.requested
    /\ \/ ~storageOk
       \/ localStorage[cacheKey(last.fy)].kind = "garbage"

\* every cache entry of a fiscal year holds one whole mapping fetched for
\* that year (as stored: JSON writes a non-finite amount as null)
C6_EntryIsFetchedMapping ==
    \A fy \in Years :
        /\ OBLIG_CACHE[fy].has =>
               OBLIG_CACHE[fy].map \in
                   FetchedMappings(fy) \cup {JsonRoundTrip(m) : m \in FetchedMappings(fy)}
        /\ localStorage[cacheKey(fy)].kind = "entry" =>
               localStorage[cacheKey(fy)].data \in
                   {JsonRoundTrip(m) : m \in FetchedMappings(fy)}

\* a step in which the awaited request of caller c settles (a reload also
\* ends the call, but records no outcome) changes no other year's entry
C6_SaveTouchesOwnYear ==
    \A c \in Callers :
        (calls[c].pc = "awaiting" /\ calls'[c] = IdleCall /\ last'.requested) =>
            \A g \in Years \ {calls[c].fy} :
                /\ OBLIG_CACHE'[g] = OBLIG_CACHE[g]
                /\ localStorage'[cacheKey(g)] = localStorage[cacheKey(g)]

\* C6: in every interleaving of concurrent calls each cache entry holds one
\* complete mapping fetched for its own year, and a save for one fiscal
\* year leaves the entries of every other year as they were.
C6_ConcurrentSaves == []C6_EntryIsFetchedMapping /\ [][C6_SaveTouchesOwnYear]_vars

\* C6 witness: the second of two concurrent calls for one year has saved
\* over the first one's entry, with a different response.
C6_Witness ==
    /\ last.outcome = "returned"
    /\ last.overwrote
    /\ last.resp = "amtNaN"
    /\ OBLIG_CACHE[last.fy].map = last.result
    /\ localStorage[cacheKey(last.fy)].data = JsonRoundTrip(last.result)
    /\ localStorage[cacheKey(last.fy)].data # last.result

----------------------------------------------------------------------------
(* SpecRegression: the presidential scatter page's buildChart over point   *)
(* lists drawn from a small grid (the House page's is the same code).      *)

MaxPoints == 3

\* the points the lists are made of; 7 is the smallest integer whose mean
\* over three equal values does not round back to it with four significant
\* bits
GridPoints ==
    {<<1, 2>>, <<2, 4>>, <<3, 6>>, <<3, 4>>, <<1, 4>>, <<2, 2>>, <<7, 2>>, <<7, 4>>}

PointSet == {[x |-> Num(g[1]), y |-> Num(g[2]), state |-> "AL"] : g \in GridPoints}

PointLists == UNION {[1..n -> PointSet] : n \in 0..MaxPoints}

InitRegression ==
    /\ now = 0
    /\ OBLIG_CACHE = [fy \in Years |-> NoMem]
    /\ storageOk = TRUE
    /\ localStorage = [key \in CacheKeys |-> NoEntry]
    /\ calls = [c \in Callers |-> IdleCall]
    /\ last = NoOutcome
    /\ memTs = [fy \in Years |-> 0]
    /\ page = "pres"
    /\ scenario = "base"
    /\ pc = "idle"
    /\ slot = [fy \in Years |-> "idle"]
    /\ failedYears = {}
    /\ yearMaps = [fy \in Years |-> NoYearMap]
    /\ status = StatusLoading
    /\ loading = TRUE
    /\ statusTimer = FALSE
    /\ DomIdle
    /\ chartRef = NoChart
    /\ preAvg = NotComputed
    /\ bidenAvg = NotComputed
    /\ preByState = NotComputed
    /\ fy24ByState = NotComputed
    /\ deltaByState = NotComputed
    /\ \E pts \in PointLists :
           pointsByWinner = [Biden |-> pts, Trump |-> <<>>, Unknown |-> <<>>]
    /\ stateOrder = <<>>
    /\ aggYears = {}
    /\ stats = NoStats
    /\ reg = NoFit
    /\ FnIdle
    /\ AuxIdle

\* buildChart(pointsByWinner)
BuildChartCall ==
    /\ ~chartRef.live
    /\ BuildChart(page, stateOrder, preByState, fy24ByState, deltaByState, pointsByWinner)
    /\ UNCHANGED <<cacheVars, page, scenario, pc, slot, failedYears, yearMaps, status,
                   loading, statusTimer, aggYears, preAvg, bidenAvg, preByState,
                   fy24ByState, deltaByState, pointsByWinner, stateOrder>>
    /\ UNCHANGED <<canvasRef, detachedCharts, resizeTimer, rebuilt>>
    /\ UNCHANGED <<fnVars, auxVars>>

NextRegression ==
    \/ BuildChartCall
    \/ AnimationComplete

SpecRegression == InitRegression /\ [][NextRegression]_vars

----------------------------------------------------------------------------
(* Claims on computeRegression and the trend line, under SpecRegression.   *)

AllEqual(vals) == \A i, j \in DOMAIN vals : vals[i] = vals[j]

\* a point set no line can be fitted to: fewer than three points, or no
\* variance in x, or no variance in y
Degenerate(pts) ==
    \/ Len(pts) < 3
    \/ AllEqual([i \in DOMAIN pts |-> pts[i].x])
    \/ AllEqual([i \in DOMAIN pts |-> pts[i].y])

\* C11: computeRegression returns null exactly for the degenerate point
\* sets (fewer than three points, all x equal, all y equal) and a fit for
\* every other input
C11_NullIffDegenerate ==
    chartRef.live => (reg.fit <=> ~Degenerate(AllPoints(pointsByWinner)))

\* the points lie on one line that is neither vertical nor horizontal:
\* (x[i] - x[1]) * (y[j] - y[1]) = (y[i] - y[1]) * (x[j] - x[1]) for all i, j
PerfectlyCorrelated(pts) ==
    /\ Len(pts) >= 3
    /\ ~Degenerate(pts)
    /\ \A i, j \in DOMAIN pts :
           Mul(Sub(pts[i].x, pts[1].x), Sub(pts[j].y, pts[1].y))
             = Mul(Sub(pts[i].y, pts[1].y), Sub(pts[j].x, pts[1].x))

\* C12: for a perfectly correlated point set (three or more points, no
\* residual) p is below 0.05, the fit is classified relevant and the trend
\* line ends solid
C12_PerfectFitRelevant ==
    (chartRef.live /\ PerfectlyCorrelated(AllPoints(pointsByWinner))) =>
        /\ reg.fit
        /\ Less(reg.p, Rat(5, 100))
        /\ chartRef.trend.relevant
        /\ chartRef.trend.finalized => chartRef.trend.borderDash = <<>>

\* the mean of vals, Sxy = sum (x - mean x)(y - mean y), and the residuals
\* of the line y = slope * x + intercept, in the program's arithmetic
C13_Mean(vals) == FDiv(Reduce(vals), Num(Len(vals)))

C13_Deviations(vals) == [i \in DOMAIN vals |-> FSub(vals[i], C13_Mean(vals))]

C13_S(us, vs) == SumOfProducts(C13_Deviations(us), C13_Deviations(vs), Len(us))

C13_Fitted(slope, intercept, x) == FAdd(FMul(slope, x), intercept)

C13_SSE(xs, ys, slope, intercept) ==
    LET res == [i \in DOMAIN xs |-> FSub(ys[i], C13_Fitted(slope, intercept, xs[i]))]
    IN  SumOfProducts(res, res, Len(xs))

C13_Example ==
    <<[x |-> Num(1), y |-> Num(2), state |-> "AL"],
      [x |-> Num(2), y |-> Num(4), state |-> "AL"],
      [x |-> Num(3), y |-> Num(6), state |-> "AL"]>>

\* C13: a fit has slope Sxy / Sxx, intercept mean(y) - slope * mean(x),
\* R2 = 1 - SSE / SST and a line from (minX, fitted y) to (maxX, fitted y);
\* the points (1,2), (2,4), (3,6) give slope 2, intercept 0 and R2 1
C13_LeastSquares ==
    LET pts == AllPoints(pointsByWinner)
        xs  == [i \in DOMAIN pts |-> pts[i].x]
        ys  == [i \in DOMAIN pts |-> pts[i].y]
    IN  (chartRef.live /\ reg.fit) =>
            /\ reg.slope = FDiv(C13_S(xs, ys), C13_S(xs, xs))
            /\ reg.intercept = FSub(C13_Mean(ys), FMul(reg.slope, C13_Mean(xs)))
            /\ reg.r2 = FSub(Num(1), FDiv(C13_SSE(xs, ys, reg.slope, reg.intercept),
                                          C13_S(ys, ys)))
            /\ Len(reg.line) = 2
            /\ \A i \in DOMAIN xs : ~Less(xs[i], reg.line[1].x) /\ ~Less(reg.line[2].x, xs[i])
            /\ \E i, j \in DOMAIN xs : reg.line[1].x = xs[i] /\ reg.line[2].x = xs[j]
            /\ \A k \in 1..2 :
                   reg.line[k].y = C13_Fitted(reg.slope, reg.intercept, reg.line[k].x)
            /\ chartRef.trend.data = reg.line
            /\ pts = C13_Example =>
                   reg.slope = Num(2) /\ reg.intercept = Num(0) /\ reg.r2 = Num(1)

\* C13 witness: the chart over (1,2), (2,4), (3,6) with its fit
C13_Witness ==
    /\ chartRef.live
    /\ AllPoints(pointsByWinner) = C13_Example
    /\ reg.fit
    /\ reg.slope = Num(2)

\* the classification the claim states, on a fit's p and R2
C14_Rule(rg) == rg.fit /\ Less(rg.p, Rat(5, 100)) /\ ~Less(rg.r2, Rat(1, 10))

C14_Fit(r2, p) ==
    [fit |-> TRUE, slope |-> Num(1), intercept |-> Num(0), r2 |-> r2, p |-> p,
     line |-> <<>>]

\* the classification of the chart's fit, of a missing fit and of the two
\* examples
C14_Classification ==
    /\ chartRef.trend.relevant = C14_Rule(reg)
    /\ stats.set => stats.relevant = C14_Rule(reg)
    /\ ~reg.fit => ~chartRef.trend.relevant /\ ~stats.set
    /\ Relevant(C14_Fit(Rat(15, 100), Rat(3, 100)))
    /\ ~Relevant(C14_Fit(Rat(5, 100), Rat(1, 100)))
    /\ ~Relevant(NoFit)

\* C14 as stated: a fit is relevant exactly when p < 0.05 and R2 >= 0.10, a
\* missing fit is not relevant, and the trend line is solid when relevant
\* and dashed otherwise, in the initial chart and after the animation
C14_SolidFromTheStart ==
    chartRef.live =>
        /\ C14_Classification
        /\ chartRef.trend.relevant => chartRef.trend.borderDash = <<>>
        /\ ~chartRef.trend.relevant => chartRef.trend.borderDash = <<4, 4>>

\* C14: a fit is relevant exactly when p < 0.05 and R2 >= 0.10 and a missing
\* fit is not relevant; a line that is not relevant is dashed in the initial
\* chart and after the animation; a relevant line starts with the draw-in
\* pattern [1000, 1000] at offset 1000 and is solid once the animation has
\* completed
C14_TrendStyle ==
    chartRef.live =>
        /\ C14_Classification
        /\ ~chartRef.trend.relevant => chartRef.trend.borderDash = <<4, 4>>
        /\ (chartRef.trend.relevant /\ chartRef.trend.finalized) =>
               chartRef.trend.borderDash = <<>> /\ chartRef.trend.borderDashOffset = 0
        /\ (chartRef.trend.relevant /\ ~chartRef.trend.finalized) =>
               /\ chartRef.trend.borderDash = <<1000, 1000>>
               /\ chartRef.trend.borderDashOffset = 1000

\* C14 witness: a relevant fit whose line has become solid, reached from
\* the chart that held its draw-in pattern
C14_Witness ==
    /\ chartRef.live
    /\ reg.fit
    /\ stats.relevant
    /\ chartRef.trend.finalized
    /\ chartRef.trend.borderDash = <<>>

----------------------------------------------------------------------------
InitCsv ==
    /\ now = 0
    /\ OBLIG_CACHE = [fy \in Years |-> NoMem]
    /\ storageOk = TRUE
    /\ localStorage = [key \in CacheKeys |-> NoEntry]
    /\ calls = [c \in Callers |-> IdleCall]
    /\ last = NoOutcome
    /\ memTs = [fy \in Years |-> 0]
    /\ page = "pres"
    /\ scenario = "base"
    /\ NoRun
    /\ \/ \E t \in MarginTables : csvTable = t /\ fileText = WriteTable(t)
       \/ \E t \in PopTables : csvTable = t /\ fileText = WriteTable(t)
       \/ \E t \in QuotedTables : csvTable = t /\ fileText = WriteTable(t)
    /\ csvCall = "none"
    /\ csvResult = NoReturn
    /\ ObligationsIdle
    /\ AuxIdle

\* parser(fileText) for one of the four parsers
ParserCall(kind, name, value) ==
    /\ csvTable.kind = kind
    /\ csvCall = "none"
    /\ csvCall' = name
    /\ csvResult' = Return(value)
    /\ UNCHANGED <<cacheVars, pageVars, csvTable, fileText, request, response,
                   auxVars>>

ParseCSVCall == ParserCall("quoted", "parseCSV", parseCSV(fileText))

MapPresMarginsCall == ParserCall("margins", "mapPresMargins", mapPresMargins(fileText))

MapHouseMarginsCall == ParserCall("margins", "mapHouseMargins", mapHouseMargins(fileText))

ParsePopulationCSVCall ==
    ParserCall("pop", "parsePopulationCSV", parsePopulationCSV(fileText))

NextCsv ==
    \/ ParseCSVCall
    \/ MapPresMarginsCall
    \/ MapHouseMarginsCall
    \/ ParsePopulationCSVCall

SpecCsv == InitCsv /\ [][NextCsv]_vars

----------------------------------------------------------------------------
(* SpecObligations: getStateObligations without the cache (the delta       *)
(* page's), the request body it posts and the mapping it builds from       *)
(* results that may repeat a state code.                                   *)

MaxResults == 2

\* results the service may send: codes in either case or absent, one code
\* possibly more than once
ResultRows ==
    [shape_code : {"AL", "vt", "VT", NoCode}, aggregated_amount : {Num(5), Num(7)}]

ResultLists == UNION {[1..k -> ResultRows] : k \in 0..MaxResults}

InitObligations ==
    /\ now = 0
    /\ OBLIG_CACHE = [fy \in Years |-> NoMem]
    /\ storageOk = TRUE
    /\ localStorage = [key \in CacheKeys |-> NoEntry]
    /\ calls = [c \in Callers |-> IdleCall]
    /\ last = NoOutcome
    /\ memTs = [fy \in Years |-> 0]
    /\ page = "delta"
    /\ scenario = "base"
    /\ NoRun
    /\ CsvIdle
    /\ request = NoRequest
    /\ \E rs \in ResultLists : response = [NoResponse EXCEPT !.results = rs]
    /\ AuxIdle

\* getStateObligations(fy) up to its await: the request is posted
PostRequest(fy) ==
    /\ request.pc = "idle"
    /\ response.outcome = "none"
    /\ request' = [pc |-> "awaiting", fy |-> fy, endpoint |-> Endpoint,
                   body |-> RequestBody(fy)]
    /\ UNCHANGED <<cacheVars, pageVars, csvTable, fileText, csvCall, csvResult, response,
                   auxVars>>

\* the request settles: usaspendingPost throws unless res.ok, else the
\* mapping is built from out.results and returned
SettleRequest(kind) ==
    /\ request.pc = "awaiting"
    /\ request' = [request EXCEPT !.pc = "idle"]
    /\ response' = IF kind = "ok"
                   THEN [response EXCEPT !.outcome = "returned",
                                         !.map = BuildMap(response.results)]
                   ELSE [response EXCEPT !.outcome = "threw"]
    /\ UNCHANGED <<cacheVars, pageVars, csvTable, fileText, csvCall, csvResult,
                   auxVars>>

NextObligations ==
    \/ \E fy \in Years : PostRequest(fy)
    \/ \E kind \in ResponseKinds : SettleRequest(kind)

SpecObligations == InitObligations /\ [][NextObligations]_vars

----------------------------------------------------------------------------
(* Claims on the parsers of the static files, under SpecCsv.               *)

\* the votes a field of the tables stands for; "x" is not a number
IsVotes(cell) == cell \in {<<"6", "0">>, <<"4", "0">>, <<"0">>}

Votes(cell) ==
    CASE cell = <<"6", "0">> -> 60
      [] cell = <<"4", "0">> -> 40
      [] OTHER -> 0

HasColumns(t) == \A name \in {ST, VotesDem2024, VotesGOP2024} : \E j \in DOMAIN t.header : t.header[j] = name

RowsOf(t, st) == {i \in DOMAIN t.rows : t.rows[i].st = st}

RECURSIVE SumInts(_)
SumInts(seq) == IF Len(seq) = 0 THEN 0 ELSE SumInts(SubSeq(seq, 1, Len(seq) - 1)) + seq[Len(seq)]

\* the state's Democratic and opposing votes in table t: the votes of its
\* rows, a field that is not a number counting 0
DemVotes(t, st) ==
    SumInts([i \in DOMAIN t.rows |-> IF t.rows[i].st = st THEN Votes(t.rows[i].dem) ELSE 0])

GopVotes(t, st) ==
    SumInts([i \in DOMAIN t.rows |-> IF t.rows[i].st = st THEN Votes(t.rows[i].gop) ELSE 0])

\* the mapping holds (d - g)/(d + g) for the state, or no entry when d + g
\* is zero
MarginIs(map, st, d, g) ==
    IF d + g = 0 THEN ~MapHas(map, st)
    ELSE MapHas(map, st) /\ MapGet(map, st) = Rat(d - g, d + g)

C16_DistrictsSummed ==
    (csvCall = "mapHouseMargins" /\ HasColumns(csvTable)) =>
        /\ ~csvResult.threw
        /\ \A e \in Range(csvResult.value) :
               /\ e.key # <<>>
               /\ RowsOf(csvTable, e.key) # {}
               /\ DemVotes(csvTable, e.key) + GopVotes(csvTable, e.key) # 0
               /\ e.val = Rat(DemVotes(csvTable, e.key) - GopVotes(csvTable, e.key),
                              DemVotes(csvTable, e.key) + GopVotes(csvTable, e.key))
        /\ \A i \in DOMAIN csvTable.rows :
               LET st == csvTable.rows[i].st
               IN  (st # <<>> /\ DemVotes(csvTable, st) + GopVotes(csvTable, st) # 0)
                       => MapHas(csvResult.value, st)

\* C16 witness: two district rows of AL, one with a Democratic field that is
\* not a number: 0 + 60 against 40 + 0 gives AL the margin 1/5
C16_Witness ==
    /\ csvCall = "mapHouseMargins"
    /\ HasColumns(csvTable)
    /\ csvTable.rows = <<[st |-> AL, dem |-> <<"x">>, gop |-> <<"4", "0">>],
                         [st |-> AL, dem |-> <<"6", "0">>, gop |-> <<"0">>]>>
    /\ csvResult.value = <<[key |-> AL, val |-> Rat(1, 5)]>>

\* C17: when the header of an electoral table lacks the state code column
\* or one of the two vote columns, the margin parser fails instead of
\* returning a mapping
C17_MissingColumnFails ==
    (csvCall \in {"mapPresMargins", "mapHouseMargins"} /\ ~HasColumns(csvTable)) =>
        csvResult.threw

\* a field without its carriage returns (parseCSV drops every CR, also
\* inside quotes: a CR LF in a quoted field is kept as LF)
RECURSIVE WithoutCR(_)
WithoutCR(f) ==
    IF Len(f) = 0 THEN <<>>
    ELSE WithoutCR(SubSeq(f, 1, Len(f) - 1)) \o (IF f[Len(f)] = CR THEN <<>> ELSE <<f[Len(f)]>>)

----------------------------------------------------------------------------
(* Claim on getStateObligations, under SpecObligations.                    *)

\* the period of fiscal year fy: 1 October of the year before to 30
\* September
C19_Period(fy) ==
    CASE fy = 2017 -> <<"2016-10-01", "2017-09-30">>
      [] fy = 2018 -> <<"2017-10-01", "2018-09-30">>
      [] fy = 2019 -> <<"2018-10-01", "2019-09-30">>
      [] fy = 2020 -> <<"2019-10-01", "2020-09-30">>
      [] fy = 2021 -> <<"2020-10-01", "2021-09-30">>
      [] fy = 2022 -> <<"2021-10-01", "2022-09-30">>
      [] fy = 2023 -> <<"2022-10-01", "2023-09-30">>
      [] OTHER     -> <<"2023-10-01", "2024-09-30">>

\* the request posted for request.fy has the scope, the layer and the one
\* period of the fiscal year
C19_Request ==
    request.fy \in Years =>
        /\ request.endpoint = Endpoint
        /\ request.body.scope = "place_of_performance"
        /\ request.body.geo_layer = "state"
        /\ Len(request.body.filters.time_period) = 1
        /\ request.body.filters.time_period[1].start_date = C19_Period(request.fy)[1]
        /\ request.body.filters.time_period[1].end_date = C19_Period(request.fy)[2]

\* the upper-cased code of a result ('' when it has none)
C19_Code(r) == IF r.shape_code = NoCode THEN "" ELSE IF r.shape_code = "vt" THEN "VT" ELSE r.shape_code

\* the sum of the amounts of the first n results that carry the code
RECURSIVE C19_Sum(_, _, _)
C19_Sum(results, n, code) ==
    IF n = 0 THEN Num(0)
    ELSE IF C19_Code(results[n]) = code
    THEN Add(C19_Sum(results, n - 1, code), results[n].aggregated_amount)
    ELSE C19_Sum(results, n - 1, code)

\* C19: getStateObligations(fy) posts scope place_of_performance, geo_layer
\* state and the period (fy-1)-10-01 to fy-09-30, and the mapping returned
\* has the upper-cased codes of the results as keys, each with the sum of
\* the aggregated amounts of the results carrying that code
C19_SummedPerCode ==
    /\ C19_Request
    /\ response.outcome = "returned" =>
           \A code \in MapKeys :
               IF \E i \in DOMAIN response.results : C19_Code(response.results[i]) = code
               THEN response.map[code] = C19_Sum(response.results, Len(response.results), code)
               ELSE response.map[code] = Undef

----------------------------------------------------------------------------
(* Claim on parsePopulationCSV, under SpecCsv.                             *)

\* the population a field stands for: a number, or NaN when the field is
\* missing or not a number ('' is 0)
C20_Population(row) ==
    IF Len(row) < 3 THEN NaN
    ELSE CASE row[3] = <<"5">> -> Num(5)
           [] row[3] = <<>>    -> Num(0)
           [] OTHER            -> NaN

\* the row has a state and a fiscal year
C20_Keyed(row) == Len(row) >= 2 /\ row[1] # <<>> /\ row[2] # <<>>

C20_Key(row) == row[1] \o <<"-">> \o row[2]

\* C20: parsePopulationCSV skips the header row and maps each data row
\* (state, fiscal_year, pop) to the key "{state}-{fiscal_year}" with its
\* population as a number (of the last such row, when a key repeats); a row
\* lacking a state or a fiscal year is skipped without failing, and every
\* other row's key is in the result
C20_PopulationByKey ==
    csvCall = "parsePopulationCSV" =>
        /\ ~csvResult.threw
        /\ \A i \in DOMAIN csvTable.rows :
               LET row == csvTable.rows[i]
               IN  C20_Keyed(row) =>
                       /\ MapHas(csvResult.value, C20_Key(row))
                       /\ (\A j \in DOMAIN csvTable.rows :
                               (j > i /\ C20_Keyed(csvTable.rows[j]))
                                   => C20_Key(csvTable.rows[j]) # C20_Key(row))
                              => MapGet(csvResult.value, C20_Key(row)) = C20_Population(row)
        /\ \A e \in Range(csvResult.value) :
               \E i \in DOMAIN csvTable.rows :
                   C20_Keyed(csvTable.rows[i]) /\ e.key = C20_Key(csvTable.rows[i])

\* C20 witness: a file with CR LF line ends whose first data row lacks the
\* fiscal year and whose second is AL, 2019, 5
C20_Witness ==
    /\ csvCall = "parsePopulationCSV"
    /\ csvTable.crlf
    /\ csvTable.rows = <<<<AL, <<>>, <<"5">>>>, <<AL, FY2019, <<"5">>>>>>
    /\ csvResult.value = <<[key |-> AL \o <<"-">> \o FY2019, val |-> Num(5)]>>

----------------------------------------------------------------------------
(* Claims about the bar charts' order, checked under Spec.                 *)

\* the larger of the two bars of the i-th state of the chart
C21_Funding(i) == MathMax(chartRef.series[1][i], chartRef.series[2][i])

\* a and b are numbers and a < b
C21_Smaller(a, b) == a.k = "num" /\ b.k = "num" /\ a.n * b.d < b.n * a.d

\* C21: the bar chart's labels hold each state of the list exactly once, no
\* state comes before a state with a larger max(baseline average, FY2024
\* value), and the first dataset is the baseline average, the second FY2024.
C21_LargestFirst ==
    (pc = "done" /\ page \in BarPages) =>
        /\ Len(chartRef.labels) = Len(StateList)
        /\ \A st \in States :
               Cardinality({i \in DOMAIN chartRef.labels : chartRef.labels[i] = st}) = 1
        /\ Len(chartRef.series) = 2
        /\ \A i \in DOMAIN chartRef.labels :
               /\ chartRef.series[1][i] = Coalesce(preByState[chartRef.labels[i]], Num(0))
               /\ chartRef.series[2][i] = Coalesce(fy24ByState[chartRef.labels[i]], Num(0))
        /\ \A i, j \in DOMAIN chartRef.labels :
               i < j => ~C21_Smaller(C21_Funding(i), C21_Funding(j))

----------------------------------------------------------------------------
(* SpecJoin: the scatter pages' Promise.all over the eight fiscal years in *)
(* every completion order, with yearMaps as the Map the callbacks fill.    *)
(* The service answers every request.                                      *)

\* mutant: the mapping is stored at the position of its arrival
StoreYearByArrival(entries, fy, m) == MapSet(entries, allYears[Len(entries) + 1], m)

\* yearMaps.set(fy, m)
StoreYear(entries, fy, m) == MapSet(entries, fy, m)

\* yearMaps.get(fy) for every year
YearMapsOf(entries) ==
    [fy \in Years |->
        IF MapHas(entries, fy) THEN [has |-> TRUE, map |-> MapGet(entries, fy)]
        ELSE NoYearMap]

\* the requests still in flight when the exploration starts
MaxInFlight == 3

\* the entries the callbacks of the years in done have stored, having
\* completed in the order of allYears
RECURSIVE EntriesOf(_, _, _)
EntriesOf(scn, done, n) ==
    IF n = 0 THEN <<>>
    ELSE LET rest == EntriesOf(scn, done, n - 1)
             fy   == allYears[n]
         IN  IF fy \in done
             THEN StoreYear(rest, fy, BuildMap(usaspendingPost("ok", scn, fy).results))
             ELSE rest

\* main() at await Promise.all(...): the static files are loaded, the eight
\* requests were posted with an empty cache, and all but MaxInFlight
\* callbacks have completed
InitJoin ==
    /\ now = 0
    /\ storageOk = TRUE
    /\ calls = [c \in Callers |-> IdleCall]
    /\ last = NoOutcome
    /\ memTs = [fy \in Years |-> 0]
    /\ page \in ScatterPages
    /\ scenario = "base"
    /\ pc = "fetching"
    /\ \E done \in SUBSET Years :
           /\ Cardinality(done) = Len(allYears) - MaxInFlight
           /\ slot = [fy \in Years |-> IF fy \in done THEN "ok" ELSE "inflight"]
           /\ yearEntries = EntriesOf(scenario, done, Len(allYears))
           /\ yearMaps = YearMapsOf(yearEntries)
           /\ OBLIG_CACHE =
                  [fy \in Years |->
                      IF Cached(page) /\ fy \in done
                      THEN saveCachedObligations([y \in Years |-> NoMem],
                                                 [key \in CacheKeys |-> NoEntry], fy,
                                                 yearMaps[fy].map, TRUE).cache[fy]
                      ELSE NoMem]
           /\ localStorage =
                  [key \in CacheKeys |->
                      IF Cached(page) /\ \E fy \in done : key = cacheKey(fy)
                      THEN LET fy == CHOOSE y \in done : key = cacheKey(y)
                           IN  saveCachedObligations([y \in Years |-> NoMem],
                                                     [k \in CacheKeys |-> NoEntry], fy,
                                                     yearMaps[fy].map, TRUE).store[key]
                      ELSE NoEntry]
    /\ failedYears = {}
    /\ status = StatusFetching
    /\ loading = TRUE
    /\ statusTimer = FALSE
    /\ DomIdle
    /\ chartRef = NoChart
    /\ preAvg = NotComputed
    /\ bidenAvg = NotComputed
    /\ preByState = NotComputed
    /\ fy24ByState = NotComputed
    /\ deltaByState = NotComputed
    /\ pointsByWinner = NoPoints
    /\ stateOrder = <<>>
    /\ aggYears = {}
    /\ stats = NoStats
    /\ reg = NoFit
    /\ FnIdle
    /\ LabelsIdle
    /\ NothingFetched
    /\ RevealIdle

\* the callback of fiscal year fy goes on after its await: the mapping is
\* stored (and cached, on the House page), and when it is the last one
\* Promise.all resolves and main() aggregates
JoinSettle(fy) ==
    /\ pc = "fetching"
    /\ slot[fy] = "inflight"
    /\ LET map     == BuildMap(usaspendingPost("ok", scenario, fy).results)
           s       == saveCachedObligations(OBLIG_CACHE, localStorage, fy, map, TRUE)
           entries == StoreYear(yearEntries, fy, map)
           ym0     == YearMapsOf(entries)
           sl0     == [slot EXCEPT ![fy] = "ok"]
       IN  /\ yearEntries' = entries
           /\ yearMaps' = ym0
           /\ slot' = sl0
           /\ OBLIG_CACHE' = IF Cached(page) THEN s.cache ELSE OBLIG_CACHE
           /\ localStorage' = IF Cached(page) THEN s.store ELSE localStorage
           /\ memTs' = IF Cached(page) THEN [memTs EXCEPT ![fy] = now] ELSE memTs
           /\ IF FetchesDone(page, sl0)
              THEN Finish(ym0)
              ELSE UNCHANGED <<pc, status, outVars>>
    /\ UNCHANGED <<now, storageOk, calls, last, page, scenario, failedYears, fnVars,
                   labelVars, fetched, revealVars>>

NextJoin == \E fy \in Years : JoinSettle(fy)

SpecJoin == InitJoin /\ [][NextJoin]_vars

\* the points of a run whose table holds every year's own response
C22_Points == PointsByWinner(scenario, C7_NetworkYearMaps, Len(StateList))

\* C22: whatever the order in which the callbacks stored their mappings,
\* once Promise.all has resolved the table maps every fiscal year to the
\* mapping of that year's response, and the averages, the deltas (the
\* points' x) and the regression result are those of that table.
C22_OrderIndependent ==
    pc = "done" =>
        /\ Len(yearEntries) = Len(allYears)
        /\ \A fy \in Years :
               /\ MapHas(yearEntries, fy)
               /\ MapGet(yearEntries, fy) = BuildMap(ServiceResults(scenario, fy))
        /\ yearMaps = C7_NetworkYearMaps
        /\ \A st \in States :
               /\ preAvg[st] = WindowAverage(scenario, C7_NetworkYearMaps, st, preYears)
               /\ bidenAvg[st] = WindowAverage(scenario, C7_NetworkYearMaps, st, bidenYears)
        /\ pointsByWinner = C22_Points
        /\ \A i \in DOMAIN chartRef.points :
               chartRef.points[i].x =
                   DeltaByState(scenario, C7_NetworkYearMaps)[chartRef.points[i].state]
        /\ reg = computeRegression(AllPoints(C22_Points))
        /\ stats = Stats(reg)

\* C22 witness: a finished run whose last callback was not FY2024's and
\* whose first was not FY2017's
C22_Witness ==
    /\ pc = "done"
    /\ chartRef.live
    /\ Len(chartRef.points) = Len(StateList)
    /\ yearEntries[Len(allYears)].key = 2019
    /\ yearEntries[Len(allYears) - 1].key = 2024
    /\ yearEntries[1].key # 2017

----------------------------------------------------------------------------
(* Claims about the scatter pages' points, checked under Spec.             *)

\* the number of points of state st among those passed to computeRegression
C23_PointsOf(st) ==
    Cardinality({i \in DOMAIN AllPoints(pointsByWinner) :
                    AllPoints(pointsByWinner)[i].state = st})

\* C23: on a finished scatter page every listed state with a finite delta
\* and a margin has exactly one point among those passed to
\* computeRegression, whatever the winner map holds for it; no state has two
\* points and a state without a margin has none.
C23_OnePointPerState ==
    (pc = "done" /\ page \in ScatterPages) =>
        /\ chartRef.points = AllPoints(pointsByWinner)
        /\ \A st \in States :
               /\ C23_PointsOf(st) <= 1
               /\ MarginGet(scenario, st).k = "undef" => C23_PointsOf(st) = 0
               /\ (/\ IsFinite(Sub(bidenAvg[st], preAvg[st]))
                   /\ MarginGet(scenario, st).k # "undef")
                  => C23_PointsOf(st) = 1

----------------------------------------------------------------------------
(* SpecLabels: a bar page's run with the service answering, then the       *)
(* chart's draws and the data labels' display callbacks as time passes.    *)
(* Chart.js starts the animation of a bar at its delay after the chart's   *)
(* first draw and ends it barDurationMs later; the data-label plugin may   *)
(* evaluate display at any time after a draw.                              *)

barDurationMs   == 850
perBarStaggerMs == 35
labelLagMs      == 120

\* the time explored after the chart's creation, in milliseconds
MaxClock == 2000

ElapseSteps == {5, 35}

\* the bars of the chart: dataIndex * 2 + datasetIndex
FlatIndices == {(i - 1) * 2 + k : i \in DOMAIN chartRef.labels, k \in {0, 1}}

\* animationDelay for a bar
animationDelay(flat) == flat * perBarStaggerMs

\* the animation of the bar has run to its end
BarDone(flat) ==
    animStart # 0 /\ perfNow - animStart >= animationDelay(flat) + barDurationMs

\* beforeDatasetsDraw's completed, t after the start
Completed(t) == (t - labelLagMs) \div (barDurationMs + perBarStaggerMs)

\* labelDisplay: flat <= (chart.$_completedFlatIndex ?? -1)
labelDisplay(flat) ==
    flat <= (IF completedFlatIndex.def THEN completedFlatIndex.v ELSE -1)

InitLabels ==
    /\ Init
    /\ page \in BarPages
    /\ scenario = "base"

\* time passes while the chart is shown (Chart.js draws a chart as soon as
\* it is created)
Elapse(dt) ==
    /\ chartRef.live
    /\ animStart # 0
    /\ perfNow + dt <= 1000 + MaxClock
    /\ perfNow' = perfNow + dt
    /\ UNCHANGED <<cacheVars, pageVars, fnVars, yearEntries, animStart, completedFlatIndex,
                   labelsShown, fetched, revealVars>>

\* the chart draws: labelsAfterBars.beforeDatasetsDraw
Draw ==
    /\ chartRef.live
    /\ page \in BarPages
    /\ Len(chartRef.labels) > 0
    /\ animStart' = IF animStart = 0 THEN perfNow ELSE animStart
    /\ completedFlatIndex' = [def |-> TRUE, v |-> Completed(perfNow - animStart')]
    /\ UNCHANGED <<cacheVars, pageVars, fnVars, yearEntries, perfNow, labelsShown, fetched,
                   revealVars>>

\* the plugin evaluates display for every bar
EvaluateLabels ==
    /\ chartRef.live
    /\ page \in BarPages
    /\ labelsShown' = {flat \in FlatIndices : labelDisplay(flat)}
    /\ UNCHANGED <<cacheVars, pageVars, fnVars, yearEntries, perfNow, animStart,
                   completedFlatIndex, fetched, revealVars>>

NextLabels ==
    \/ Mount
    \/ PopLoaded(TRUE)
    \/ StaticLoaded(TRUE)
    \/ \E fy \in Years : FetchSettle(fy, "ok")
    \/ \E dt \in ElapseSteps : Elapse(dt)
    \/ Draw
    \/ EvaluateLabels

SpecLabels == InitLabels /\ [][NextLabels]_vars

\* C24: a bar's data label is shown only once the bar's animation (delay
\* flat * 35 ms, duration 850 ms) has run to its end, and the labels shown
\* are always the bars up to some flat index, so they appear in the order in
\* which the bars animate.
C24_LabelsAfterBars ==
    /\ \A flat \in labelsShown : BarDone(flat)
    /\ \A flat \in labelsShown : \A lower \in 0..flat : lower \in labelsShown

----------------------------------------------------------------------------
(* A further claim about the cache, checked under SpecCache.               *)

\* the mapping a response with res.ok of scenario scn produces for fy
C25_Produced(scn, fy) == BuildMap(ServiceResults(scn, fy))

\* every entry of either layer belongs to a fiscal year for which a
\* response with res.ok was received, and holds the mapping of such a
\* response for that year (localStorage holds it as JSON wrote it)
C25_EntriesFromSuccess ==
    \A fy \in Years :
        /\ OBLIG_CACHE[fy].has =>
               /\ fy \in fetched
               /\ \E scn \in CacheResponses :
                      OBLIG_CACHE[fy].map \in
                          {C25_Produced(scn, fy), JsonRoundTrip(C25_Produced(scn, fy))}
        /\ localStorage[cacheKey(fy)].kind = "entry" =>
               /\ fy \in fetched
               /\ \E scn \in CacheResponses :
                      localStorage[cacheKey(fy)].data = JsonRoundTrip(C25_Produced(scn, fy))

\* a step in which a call ends with its request failed leaves both layers
\* as they were
C25_FailedCallLeavesCache ==
    \A c \in Callers :
        (/\ calls[c].pc = "awaiting"
         /\ calls'[c] = IdleCall
         /\ last'.requested
         /\ last'.outcome = "threw")
        => (OBLIG_CACHE' = OBLIG_CACHE /\ localStorage' = localStorage)

\* C25: a getStateObligations call whose request fails writes to neither
\* cache layer, and after any sequence of calls every entry of OBLIG_CACHE
\* and of localStorage comes from a successful response for its own year.
C25_FailedCallWritesNothing ==
    []C25_EntriesFromSuccess /\ [][C25_FailedCallLeavesCache]_vars

\* C25 witness: the request for one year has failed and left no entry for
\* it, with no response ever received for that year, while the other year
\* is cached
C25_Witness ==
    /\ last.outcome = "threw"
    /\ last.requested
    /\ last.fy \notin fetched
    /\ ~OBLIG_CACHE[last.fy].has
    /\ localStorage[cacheKey(last.fy)].kind # "entry"
    /\ \E fy \in CacheYears : OBLIG_CACHE[fy].has /\ fy \in fetched

----------------------------------------------------------------------------
(* A further claim about the margin parsers, checked under SpecCsv.        *)

\* C26: every margin mapPresMargins or mapHouseMargins returns, for a table
\* whose vote fields are non-negative numbers, empty or not numeric, is a
\* number from -1 to 1, never NaN.
C26_MarginsInRange ==
    csvCall \in {"mapPresMargins", "mapHouseMargins"} =>
        \A i \in DOMAIN csvResult.value :
            LET m == csvResult.value[i].val
            IN  /\ m.k = "num"
                /\ -m.d <= m.n
                /\ m.n <= m.d

----------------------------------------------------------------------------
(* The delta across the pages, checked under Spec.                         *)

\* the delta of a state from the population table and the year mappings the
\* page holds
C27_Delta(st) == Sub(C8_Mean(st, bidenYears), C8_Mean(st, preYears))

\* the points a scatter page makes of the population table and the year
\* mappings the page holds
C27_ScatterPoints == AllPoints(PointsByWinner(scenario, yearMaps, Len(StateList)))

\* C27: from one population table and one set of year mappings the delta
\* page's bar of a state and the scatter pages' point of that state carry
\* the same delta: bar value and x-coordinate are both the state's
\* bidenAvg - preAvg.
C27_SameDelta ==
    pc = "done" =>
        /\ page = "delta" =>
               /\ \A i \in DOMAIN chartRef.labels :
                      chartRef.series[1][i] = C27_Delta(chartRef.labels[i])
               /\ \A k \in DOMAIN C27_ScatterPoints :
                      \E i \in DOMAIN chartRef.labels :
                          /\ chartRef.labels[i] = C27_ScatterPoints[k].state
                          /\ chartRef.series[1][i] = C27_ScatterPoints[k].x
        /\ page \in ScatterPages =>
               \A k \in DOMAIN chartRef.points :
                   /\ chartRef.points[k].x = C27_Delta(chartRef.points[k].state)
                   /\ chartRef.points[k].x =
                          DeltaByState(scenario, yearMaps)[chartRef.points[k].state]

\* C27 witness: the House scatter page's point of TX has x = 10, the delta
\* page's value for the same table and mappings
C27_Witness ==
    /\ pc = "done"
    /\ page = "house"
    /\ \E k \in DOMAIN chartRef.points :
           /\ chartRef.points[k].state = "TX"
           /\ chartRef.points[k].x = Num(10)
    /\ DeltaByState(scenario, yearMaps)["TX"] = Num(10)
    /\ preAvg["TX"] = Num(15)

----------------------------------------------------------------------------
(* The order of the points handed to computeRegression, under              *)
(* SpecRegression.                                                         *)

\* the same points in every order
C28_Reorderings(points) ==
    LET n == Len(points)
        perms == {f \in [1..n -> 1..n] : \A i, j \in 1..n : f[i] = f[j] => i = j}
    IN  {[i \in 1..n |-> points[f[i]]] : f \in perms}

\* the part of the result C28 names: fit or no fit, slope, intercept, R2, line
C28_Outcome(rg) ==
    [fit |-> rg.fit, slope |-> rg.slope, intercept |-> rg.intercept, r2 |-> rg.r2,
     line |-> rg.line]

\* C28: the result of computeRegression depends only on the multiset of the
\* points: handed the points buildChart fitted in any other order, it
\* returns the same fit-or-no-fit outcome, slope, intercept, R2 and line
C28_OrderInsensitive ==
    chartRef.live =>
        \A q \in C28_Reorderings(AllPoints(pointsByWinner)) :
            C28_Outcome(computeRegression(q)) = C28_Outcome(reg)

----------------------------------------------------------------------------
(* SpecReveal: a page with the description / key-observations toggle is    *)
(* loaded, its text is revealed word by word, the reader switches the view *)
(* mode and leaves the page.  A timer fires at any time after it was set.  *)

InitReveal == Init /\ page \in RevealPages /\ scenario = "base"

\* what a run of the word effect leaves
RevealAfter(r, mode) ==
    /\ viewMode' = mode
    /\ displayedWords' = r.displayedWords
    /\ animationTimeout' = r.timeout
    /\ wordIntervals' = r.intervals
    /\ effectDeps' = Deps(page, loading, mode)

\* React runs the word effect after a commit that changed its dependencies:
\* the mount and, on the home page, setLoading(false)
EffectRuns ==
    /\ page \in RevealPages
    /\ pc # "idle"
    /\ effectDeps # Deps(page, loading, viewMode)
    /\ Len(wordIntervals) < MaxIntervals
    /\ RevealAfter(WordEffect(page, loading, chartRef.live, viewMode, animationTimeout,
                              wordIntervals, displayedWords), viewMode)
    /\ UNCHANGED <<cacheVars, pageVars, fnVars, yearEntries, labelVars, fetched>>

\* a click on "Key observations..." or "Description...": setViewMode, the
\* render and the effect that follows it
ToggleView ==
    /\ page \in RevealPages
    /\ pc # "idle"
    /\ page = "home" => ~loading
    /\ effectDeps = Deps(page, loading, viewMode)
    /\ Len(wordIntervals) < MaxIntervals
    /\ LET mode == IF viewMode = "desc" THEN "key" ELSE "desc"
       IN  RevealAfter(WordEffect(page, loading, chartRef.live, mode, animationTimeout,
                                  wordIntervals, displayedWords), mode)
    /\ UNCHANGED <<cacheVars, pageVars, fnVars, yearEntries, labelVars, fetched>>

\* the home page's animationTimeout fires: it starts the interval (what the
\* callback returns goes nowhere)
TimeoutFires ==
    /\ animationTimeout.set
    /\ Len(wordIntervals) < MaxIntervals
    /\ animationTimeout' = NoTimeout
    /\ wordIntervals' = Append(wordIntervals, Interval(animationTimeout.length, FALSE))
    /\ UNCHANGED <<viewMode, displayedWords, effectDeps>>
    /\ UNCHANGED <<cacheVars, pageVars, fnVars, yearEntries, labelVars, fetched>>

\* the i-th interval fires: one more word, and the timer clears itself at
\* the end of its text
IntervalTick(i) ==
    /\ i \in DOMAIN wordIntervals
    /\ LET iv == wordIntervals[i]
           k  == iv.wordIndex + 1
       IN  /\ displayedWords' = IF iv.mounted THEN k ELSE displayedWords
           /\ wordIntervals' =
                  IF k >= iv.length
                  THEN SubSeq(wordIntervals, 1, i - 1)
                         \o SubSeq(wordIntervals, i + 1, Len(wordIntervals))
                  ELSE [wordIntervals EXCEPT ![i].wordIndex = k]
    /\ UNCHANGED <<viewMode, animationTimeout, effectDeps>>
    /\ UNCHANGED <<cacheVars, pageVars, fnVars, yearEntries, labelVars, fetched>>

NextReveal ==
    \/ Mount
    \/ StaticLoaded(TRUE)
    \/ \E fy \in Years : FetchSettle(fy, "ok")
    \/ EffectRuns
    \/ ToggleView
    \/ TimeoutFires
    \/ \E i \in 1..MaxIntervals : IntervalTick(i)
    \/ Unmount

SpecReveal == InitReveal /\ [][NextReveal]_vars

\* at most one interval timer is active, and no more words are shown than
\* the text of the view mode has
C29_OneTimerInBounds ==
    /\ Len(wordIntervals) <= 1
    /\ displayedWords <= WordCount(viewMode)

\* a view-mode change or an unmount leaves no interval that was running
\* before it, and while the view mode stays displayedWords does not go down
C29_Step ==
    /\ (viewMode' # viewMode \/ (pc # "idle" /\ pc' = "idle")) =>
           \A i \in DOMAIN wordIntervals' : wordIntervals'[i].wordIndex = 0
                                             /\ wordIntervals'[i].mounted
    /\ (viewMode' = viewMode /\ pc' # "idle" /\ effectDeps' = effectDeps) =>
           displayedWords' >= displayedWords

\* C29: on the pages with the toggle at most one word-reveal interval is
\* active at any time, none survives a view-mode change or an unmount, and
\* between two view-mode changes displayedWords never decreases and never
\* exceeds the word count of the text shown
C29_SingleRevealTimer == []C29_OneTimerInBounds /\ [][C29_Step]_vars

----------------------------------------------------------------------------
(* SpecCharts: the chart instances of a page over its loads, the           *)
(* stand-alone page's resize rebuilds, and unmounts at any point of        *)
(* main(), whose awaits go on without the component.                       *)

InitCharts == Init /\ scenario = "base"

\* the component unmounts while main() is waiting: React clears
\* canvasRef.current and runs the cleanups; main() goes on
UnmountEarly ==
    /\ page # "totals"
    /\ pc \in {"pop", "static", "fetching"}
    /\ canvasRef
    /\ canvasRef' = FALSE
    /\ chartsOnCanvas' = CleanupCharts(page, chartRef.live, chartsOnCanvas)
    /\ chartRef' = IF page \in ScatterPages /\ chartRef.live THEN NoChart ELSE chartRef
    /\ UnmountReveal
    /\ UNCHANGED <<detachedCharts, resizeTimer, rebuilt>>
    /\ UNCHANGED <<cacheVars, page, scenario, pc, slot, failedYears, yearMaps, status,
                   loading, statusTimer, aggYears, preAvg, bidenAvg, preByState,
                   fy24ByState, deltaByState, pointsByWinner, stateOrder, stats, reg>>
    /\ UNCHANGED <<fnVars, yearEntries, labelVars, fetched>>

\* a resize event on the stand-alone page, whose listener main() adds after
\* buildChart: clearTimeout(resizeTimer), resizeTimer = setTimeout(..., 180)
Resize ==
    /\ page = "totals"
    /\ pc = "done"
    /\ resizeTimer' = TRUE
    /\ UNCHANGED <<canvasRef, chartsOnCanvas, detachedCharts, rebuilt>>
    /\ UNCHANGED <<cacheVars, page, scenario, pc, slot, failedYears, yearMaps, status,
                   loading, statusTimer, chartRef, aggYears, preAvg, bidenAvg, preByState,
                   fy24ByState, deltaByState, pointsByWinner, stateOrder, stats, reg>>
    /\ UNCHANGED <<fnVars, auxVars>>

\* the debounced rebuild: destroyChart(); buildChart({...})
ResizeRebuild ==
    /\ resizeTimer
    /\ resizeTimer' = FALSE
    /\ BuildChart(page, stateOrder, preByState, fy24ByState, deltaByState, pointsByWinner)
    /\ rebuilt' = TRUE
    /\ UNCHANGED <<canvasRef, detachedCharts>>
    /\ UNCHANGED <<cacheVars, page, scenario, pc, slot, failedYears, yearMaps, status,
                   loading, statusTimer, aggYears, preAvg, bidenAvg, preByState,
                   fy24ByState, deltaByState, pointsByWinner, stateOrder>>
    /\ UNCHANGED <<fnVars, auxVars>>

NextCharts ==
    \/ Mount
    \/ PopLoaded(TRUE)
    \/ StaticLoaded(TRUE)
    \/ \E fy \in Years : FetchSettle(fy, "ok")
    \/ StatusTimer
    \/ Resize
    \/ ResizeRebuild
    \/ UnmountEarly
    \/ Unmount

SpecCharts == InitCharts /\ [][NextCharts]_vars

\* C30: whatever buildChart calls, debounced resize rebuilds and unmounts
\* have happened, no canvas has more than one chart instance that was not
\* destroyed, the handle holds the canvas's instance or nothing, and once a
\* scatter page is unmounted its handle is empty and its canvas has no chart
C30_OneLiveChart ==
    /\ chartsOnCanvas <= 1
    /\ detachedCharts <= 1
    /\ chartRef.live => chartsOnCanvas = 1
    /\ page \in ScatterPages =>
           /\ detachedCharts = 0
           /\ ~canvasRef => ~chartRef.live /\ chartsOnCanvas = 0

\* a resize has rebuilt the stand-alone page's chart
C30_Witness ==
    /\ page = "totals"
    /\ rebuilt
    /\ chartRef.live
    /\ chartsOnCanvas = 1


====
